---- MODULE Spec2Model ----
(***************************************************************************)
(* State-machine model of the Django learning-lab projects:                *)
(*   - social_media_api: follow graph (Spec), feed (SpecFeed), posts       *)
(*     (SpecPosts), posts and comments over HTTP (SpecContent,             *)
(*     SpecAuthors), cascading deletes (SpecCascade), notifications        *)
(*     (SpecNotif), notification endpoints (SpecInbox), missing objects    *)
(*     (SpecMissing)                                                       *)
(*   - social_media_api / relationship_app: registration (SpecReg),        *)
(*     concurrent registration (SpecRace), tokens (SpecTokens)             *)
(*   - advanced_features_and_security bookshelf app: permissions           *)
(*     (SpecShelf), books (SpecBooks), reviews (SpecReviews), the book     *)
(*     form (SpecForm)                                                     *)
(*   - advanced-api-project book service (SpecApi, SpecYears)              *)
(*   - advanced_features_and_security accounts app: user manager           *)
(*     (SpecUsers)                                                         *)
(* Each project has its own database, so each has its own variables and    *)
(* its own specification; a specification leaves the other projects'       *)
(* variables unchanged.                                                    *)
(***************************************************************************)
EXTENDS Integers, Sequences, FiniteSets, Bags, TLC

\* ------------------------------------------------------------------ bounds
NumUsers == 2
MaxPosts == 2
MaxBooks == 2
MaxReviews == 2
MaxInFlight == 2
MaxReviewsInFlight == 1
MaxAccounts == 2
MaxApiBooks == 2
MaxYears == 1
MaxUsers == 2
MaxNotifications == 2
MaxKeys == 3
MaxComments == 1
MaxContentPosts == 1
MaxCascadeNotifications == 1

VARIABLES
    \* social_media_api
    followers,      \* followers[u]: the users who follow u (CustomUser.followers)
    posts,          \* the Post rows: [id, author, created_at, title]
    nextPostId,     \* the next primary key of Post
    now,            \* the server clock (timezone.now())
    resp            \* the outcome of the last call or request

socialVars == <<followers, posts, nextPostId, now, resp>>

VARIABLES
    \* advanced_features_and_security: bookshelf
    books,          \* the Book rows: [pk, isbn]
    reviews,        \* the BookReview rows: [pk, book, reviewer, rating]
    nextBookPk,     \* the next primary key of Book
    nextReviewPk,   \* the next primary key of BookReview
    pending,        \* bag of requests between form.is_valid() and form.save()
    shelfResp       \* the outcome of the last bookshelf request

shelfVars == <<books, reviews, nextBookPk, nextReviewPk, pending, shelfResp>>

VARIABLES
    \* advanced-api-project
    apiBooks,       \* the Book rows: [id, title, publication_year, author]
    nextApiBookId,  \* the next primary key of Book
    thisYear,       \* date.today().year
    apiResp         \* the outcome of the last request

apiVars == <<apiBooks, nextApiBookId, thisYear, apiResp>>

VARIABLES
    \* registration: social_media_api accounts, and relationship_app
    accounts,       \* social_media_api users: [id, username, email, password]
    tokens,         \* the authtoken Token rows: [user, key]
    nextKey,        \* the next key Token.generate_key() draws
    formUsers,      \* relationship_app users: [id, password]
    regResp,        \* the outcome of the last registration request
    validated       \* bag of register requests between is_valid() and save()

regVars == <<accounts, tokens, nextKey, formUsers, regResp, validated>>

VARIABLES
    \* advanced_features_and_security: accounts
    users,          \* the CustomUser rows: [id, email, username, is_staff, is_superuser, is_active]
    userResp        \* the outcome of the last manager call or command

userVars == <<users, userResp>>

VARIABLES
    \* social_media_api: notifications
    notifications,      \* the Notification rows: [id, recipient, actor, verb, read]
    nextNotificationId, \* the next primary key of Notification
    notifResp           \* the outcome of the last notification request

notifVars == <<notifications, nextNotificationId, notifResp>>

VARIABLES
    \* social_media_api: users and comments
    comments,       \* the Comment rows: [id, post, author, content]
    nextCommentId,  \* the next primary key of Comment
    members         \* the primary keys of the CustomUser rows

contentVars == <<comments, nextCommentId, members>>

vars == <<socialVars, shelfVars, apiVars, regVars, userVars, notifVars, contentVars>>
\* what an action of one project leaves alone: the other projects' databases
\* the databases of the other projects, and the notifications
outsideVars == <<shelfVars, apiVars, regVars, userVars, notifVars>>
nonSocialVars == <<outsideVars, contentVars>>
nonShelfVars == <<socialVars, apiVars, regVars, userVars, notifVars, contentVars>>
nonApiVars == <<socialVars, shelfVars, regVars, userVars, notifVars, contentVars>>
nonRegVars == <<socialVars, shelfVars, apiVars, userVars, notifVars, contentVars>>
nonUserVars == <<socialVars, shelfVars, apiVars, regVars, notifVars, contentVars>>
nonNotifVars == <<socialVars, shelfVars, apiVars, regVars, userVars, contentVars>>

\* ------------------------------------------------------------------- texts
\* texts are tuples of characters
Space == " "

RECURSIVE lstrip(_)
lstrip(s) == IF s # <<>> /\ Head(s) = Space THEN lstrip(Tail(s)) ELSE s

RECURSIVE rstrip(_)
rstrip(s) ==
    IF s # <<>> /\ s[Len(s)] = Space THEN rstrip(SubSeq(s, 1, Len(s) - 1)) ELSE s

\* str.strip(): what serializers.CharField (trim_whitespace=True) and
\* forms.CharField (strip=True) make of the text sent
strip(s) == rstrip(lstrip(s))

\* An email address is the pair <<name, domain>>; <<>> is the empty string.
NoEmail == <<>>

\* str.lower() on the domains in use
lower(domain) == IF domain = "EXAMPLE.com" THEN "example.com" ELSE domain

\* BaseUserManager.normalize_email: the domain part in lower case
normalize_email(email) ==
    IF email = NoEmail THEN email ELSE <<email[1], lower(email[2])>>

\* =====================================================================
\* social_media_api: accounts.CustomUser follow graph
\* =====================================================================
UserIds == 1..NumUsers
\* a primary key that names no user
MissingUserId == NumUsers + 1

\* ManyToManyField related manager: add() of a member and remove() of a
\* non-member change nothing and raise nothing.
m2m_add(rows, pk) == [rows |-> rows \cup {pk}, raised |-> FALSE]
m2m_remove(rows, pk) == [rows |-> rows \ {pk}, raised |-> FALSE]

\* mutant: follow toggles the edge, removing it when it is already there
follow_toggle(g, self, user) ==
    IF user # self
    THEN IF self \in g[user]
         THEN [followers |-> [g EXCEPT ![user] = @ \ {self}], raised |-> FALSE]
         ELSE [followers |-> [g EXCEPT ![user] = @ \cup {self}], raised |-> FALSE]
    ELSE [followers |-> g, raised |-> FALSE]

\* mutant: the relation declared symmetrical, so that add() stores both edges
follow_symmetrical(g, self, user) ==
    IF user # self
    THEN [followers |-> [g EXCEPT ![user] = @ \cup {self}, ![self] = @ \cup {user}],
          raised |-> FALSE]
    ELSE [followers |-> g, raised |-> FALSE]

\* mutant: follow without the comparison of user and self
follow_unguarded(g, self, user) ==
    [followers |-> [g EXCEPT ![user] = @ \cup {self}], raised |-> FALSE]

\* CustomUser.follow(self, user): if user != self: user.followers.add(self)
follow(g, self, user) ==
    IF user # self
    THEN LET r == m2m_add(g[user], self)
         IN [followers |-> [g EXCEPT ![user] = r.rows], raised |-> r.raised]
    ELSE [followers |-> g, raised |-> FALSE]

\* CustomUser.unfollow(self, user): user.followers.remove(self)
unfollow(g, self, user) ==
    LET r == m2m_remove(g[user], self)
    IN [followers |-> [g EXCEPT ![user] = r.rows], raised |-> r.raised]

\* CustomUser.is_following(self, user): user.followers.filter(pk=self.pk).exists()
is_following(g, self, user) == \E f \in g[user] : f = self

\* CustomUser.is_followed_by(self, user): self.followers.filter(pk=user.pk).exists()
is_followed_by(g, self, user) == \E f \in g[self] : f = user

\* mutant: the feed reads the user's followers instead of the users followed
following_reversed(g, u) == g[u]

\* the reverse accessor of followers (related_name='following')
following(g, u) == {v \in UserIds : u \in g[v]}

\* a direct call of the model method u.follow(v)
CallFollow(self, user) ==
    LET r == follow(followers, self, user)
    IN /\ self \in members /\ user \in members
       /\ followers' = r.followers
       /\ resp' = [op |-> "follow", self |-> self, user |-> user,
                   raised |-> r.raised, changed |-> r.followers # followers]
       /\ UNCHANGED <<posts, nextPostId, now, nonSocialVars>>

\* a direct call of the model method u.unfollow(v)
CallUnfollow(self, user) ==
    LET r == unfollow(followers, self, user)
    IN /\ self \in members /\ user \in members
       /\ followers' = r.followers
       /\ resp' = [op |-> "unfollow", self |-> self, user |-> user,
                   raised |-> r.raised, changed |-> r.followers # followers]
       /\ UNCHANGED <<posts, nextPostId, now, nonSocialVars>>

\* the requester of an HTTP request: a logged-in user or AnonymousUser
Anonymous == 0
Requesters == UserIds \cup {Anonymous}
\* DRF answers NotAuthenticated with 401 or 403, by the first authenticator
Unauthenticated == {401, 403}

\* FollowSerializer.validate_user_id: User.objects.get(pk=value) must exist
validate_user_id(value) == value \in members
\* FollowSerializer.action: ChoiceField(choices=['follow', 'unfollow'])
FollowActions == {"follow", "unfollow"}
\* FollowSerializer.validate: request.user.id == user_id is rejected
FollowSerializer_is_valid(requester, user_id, action) ==
    /\ validate_user_id(user_id)
    /\ action \in FollowActions
    /\ requester # user_id

\* FollowUserView.post
FollowUserView(requester, user_id, action) ==
    /\ requester \in members \cup {Anonymous}
    /\ UNCHANGED <<posts, nextPostId, now, nonSocialVars>>
    /\ IF requester = Anonymous
       THEN /\ \E st \in Unauthenticated :
                 resp' = [op |-> "FollowUserView", requester |-> requester,
                          user_id |-> user_id, action |-> action, status |-> st]
            /\ UNCHANGED followers
       ELSE IF ~FollowSerializer_is_valid(requester, user_id, action)
       THEN /\ resp' = [op |-> "FollowUserView", requester |-> requester,
                        user_id |-> user_id, action |-> action, status |-> 400]
            /\ UNCHANGED followers
       ELSE LET r == IF action = "follow"
                     THEN follow(followers, requester, user_id)
                     ELSE unfollow(followers, requester, user_id)
            IN /\ followers' = r.followers
               /\ resp' = [op |-> "FollowUserView", requester |-> requester,
                           user_id |-> user_id, action |-> action,
                           status |-> IF r.raised THEN 500 ELSE 200,
                           following |-> is_following(r.followers, requester, user_id),
                           changed |-> r.followers # followers]

\* =====================================================================
\* social_media_api: posts and the feed
\* =====================================================================
\* The server clock advances. Only the order of the created_at values matters,
\* so the clock is read in instants that separate two creations: it moves on
\* only after a post was created at the present instant.
Tick ==
    /\ now < nextPostId - 1
    /\ now' = now + 1
    /\ resp' = [op |-> "tick"]
    /\ UNCHANGED <<followers, posts, nextPostId, nonSocialVars>>

PostIds == 1..MaxPosts

\* Post.title: max_length=200; validate_content of a comment: at most 1000
PostTitleMaxLength == 200
CommentContentMaxLength == 1000

\* the body of a request to the posts endpoints: given names the fields
\* sent; content_ok says whether the content sent passes validate_content
PostPayload(given, title, content_ok, author_id) ==
    [given |-> given,
     title |-> IF "title" \in given THEN title ELSE <<>>,
     content_ok |-> IF "content" \in given THEN content_ok ELSE TRUE,
     author_id |-> IF "author_id" \in given THEN author_id ELSE 0]

\* a text field with its validate_<field>: serializers.CharField trims the
\* text and refuses a blank one, the text may not exceed max_length, and the
\* trimmed text is the value
validate_text(value, max_length) ==
    [ok |-> strip(value) # <<>> /\ Len(strip(value)) <= max_length,
     value |-> strip(value)]

\* PostSerializer.validate_title
validate_title(value) == validate_text(value, PostTitleMaxLength)

\* CommentSerializer.validate_content
validate_content(value) == validate_text(value, CommentContentMaxLength)

\* PostSerializer.is_valid: the fields in error. title and content are
\* required unless the update is partial; author_id is an optional integer.
PostSerializer_errors(payload, partial) ==
    (IF "title" \in payload.given
     THEN IF validate_title(payload.title).ok THEN {} ELSE {"title"}
     ELSE IF partial THEN {} ELSE {"title"})
    \cup
    (IF "content" \in payload.given
     THEN IF payload.content_ok THEN {} ELSE {"content"}
     ELSE IF partial THEN {} ELSE {"content"})

\* ModelSerializer.update on a Post: setattr(instance, attr, value) for
\* every item of validated_data, author_id among them, then instance.save()
PostSerializer_update(obj, payload) ==
    [obj EXCEPT !.title = IF "title" \in payload.given
                          THEN validate_title(payload.title).value ELSE @,
                !.author = IF "author_id" \in payload.given
                           THEN payload.author_id ELSE @]

\* PostViewSet.create -> perform_create: serializer.save(author=request.user),
\* PostSerializer.create: author_id is popped and the author is request.user;
\* created_at is auto_now_add
PostCreate(requester, payload) ==
    /\ requester \in members \cup {Anonymous}
    /\ nextPostId <= MaxPosts
    /\ UNCHANGED <<followers, now, nonSocialVars>>
    /\ IF requester = Anonymous
       THEN /\ \E st \in Unauthenticated :
                 resp' = [op |-> "PostCreate", requester |-> requester, status |-> st]
            /\ UNCHANGED <<posts, nextPostId>>
       ELSE IF PostSerializer_errors(payload, FALSE) # {}
       THEN /\ resp' = [op |-> "PostCreate", requester |-> requester, status |-> 400]
            /\ UNCHANGED <<posts, nextPostId>>
       ELSE /\ posts' = posts \cup
                 {[id |-> nextPostId, author |-> requester, created_at |-> now,
                   title |-> validate_title(payload.title).value]}
            /\ nextPostId' = nextPostId + 1
            /\ resp' = [op |-> "PostCreate", requester |-> requester, status |-> 201,
                        id |-> nextPostId, author_id |-> payload.author_id]

\* mutant: a foreign key that leaves the referring rows where they are
CASCADE_off(rows, field, gone) == rows

\* on_delete=models.CASCADE: the rows left when those whose foreign key
\* field names a deleted row are deleted with it
CASCADE(rows, field, gone) == {r \in rows : r[field] \notin gone}

\* mutant: an object permission that lets every requester write
IsAuthorOrReadOnly_AllowAny(requester, obj) == TRUE

\* IsAuthorOrReadOnly.has_object_permission for an unsafe method
IsAuthorOrReadOnly(requester, obj) == obj.author = requester

\* PostViewSet.destroy: check_permissions, get_object (404), object permission
\* (403), perform_destroy; the delete cascades to the post's comments
PostDestroy(requester, pk) ==
    /\ requester \in members \cup {Anonymous}
    /\ UNCHANGED <<followers, nextPostId, now, nextCommentId, members, outsideVars>>
    /\ IF requester = Anonymous
       THEN /\ \E st \in Unauthenticated :
                 resp' = [op |-> "PostDestroy", requester |-> requester, pk |-> pk,
                          status |-> st]
            /\ UNCHANGED <<posts, comments>>
       ELSE IF ~\E p \in posts : p.id = pk
       THEN /\ resp' = [op |-> "PostDestroy", requester |-> requester, pk |-> pk,
                        status |-> 404]
            /\ UNCHANGED <<posts, comments>>
       ELSE LET obj == CHOOSE p \in posts : p.id = pk
            IN IF ~IsAuthorOrReadOnly(requester, obj)
               THEN /\ resp' = [op |-> "PostDestroy", requester |-> requester,
                                pk |-> pk, status |-> 403]
                    /\ UNCHANGED <<posts, comments>>
               ELSE /\ posts' = posts \ {obj}
                    /\ comments' = CASCADE(comments, "post", {obj.id})
                    /\ resp' = [op |-> "PostDestroy", requester |-> requester,
                                pk |-> pk, status |-> 204]

\* the orders in which a set of rows can be listed
Listings(S) ==
    {s \in [1..Cardinality(S) -> S] :
        \A i, j \in 1..Cardinality(S) : i # j => s[i] # s[j]}

\* QuerySet.order_by('-created_at'): most recent first; the database picks the
\* order of rows with equal created_at
order_by_created_at_desc(S) ==
    {s \in Listings(S) :
        \A i \in 1..(Cardinality(S) - 1) : s[i].created_at >= s[i + 1].created_at}

\* FeedView.get_queryset:
\*   following_users = current_user.following.all()
\*   Post.objects.filter(author__in=following_users).order_by('-created_at')
FeedView_get_queryset(current_user) ==
    LET following_users == following(followers, current_user)
    IN order_by_created_at_desc({p \in posts : p.author \in following_users})

\* FeedView.list (GET /api/feed/, IsAuthenticated)
FeedView(requester) ==
    /\ requester \in members \cup {Anonymous}
    /\ UNCHANGED <<followers, posts, nextPostId, now, nonSocialVars>>
    /\ IF requester = Anonymous
       THEN \E st \in Unauthenticated :
                resp' = [op |-> "FeedView", requester |-> requester, status |-> st]
       ELSE \E qs \in FeedView_get_queryset(requester) :
                resp' = [op |-> "FeedView", requester |-> requester, status |-> 200,
                         results |-> qs,
                         following_count |-> Cardinality(following(followers, requester))]

\* =====================================================================
\* social_media_api: posts and comments, create, read, update, delete
\* =====================================================================
\* the HTTP methods of a read, and of an update
ReadMethods == {"GET", "HEAD", "OPTIONS"}
UpdateMethods == {"PUT", "PATCH"}

\* PostViewSet.retrieve, and HEAD and OPTIONS of /api/posts/<pk>/: no
\* permission class refuses a safe method; OPTIONS answers the metadata
\* whether or not the post exists
PostRetrieve(requester, method, pk) ==
    /\ requester \in members \cup {Anonymous}
    /\ method \in ReadMethods
    /\ resp' = [op |-> "PostRetrieve", requester |-> requester,
                method |-> method, pk |-> pk,
                status |-> IF method = "OPTIONS" \/ \E p \in posts : p.id = pk
                           THEN 200 ELSE 404]
    /\ UNCHANGED <<followers, posts, nextPostId, now, contentVars, outsideVars>>

\* PostViewSet.my_posts, GET /api/posts/my_posts/:
\* Post.objects.filter(author=request.user), a TypeError for AnonymousUser
PostMyPosts(requester) ==
    /\ requester \in members \cup {Anonymous}
    /\ resp' = [op |-> "PostMyPosts", requester |-> requester,
                method |-> "GET",
                status |-> IF requester = Anonymous THEN 500 ELSE 200]
    /\ UNCHANGED <<followers, posts, nextPostId, now, contentVars, outsideVars>>

\* PostViewSet.update / partial_update: check_permissions, get_object (404),
\* object permission (403), is_valid (400), serializer.save(). A value of
\* author_id that names no user violates the foreign key: IntegrityError.
PostUpdate(requester, pk, method, payload) ==
    /\ requester \in members \cup {Anonymous}
    /\ method \in UpdateMethods
    /\ UNCHANGED <<followers, nextPostId, now, contentVars, outsideVars>>
    /\ IF requester = Anonymous
       THEN /\ \E st \in Unauthenticated :
                 resp' = [op |-> "PostUpdate", requester |-> requester,
                          method |-> method, pk |-> pk, status |-> st]
            /\ UNCHANGED posts
       ELSE IF ~\E p \in posts : p.id = pk
       THEN /\ resp' = [op |-> "PostUpdate", requester |-> requester,
                        method |-> method, pk |-> pk, status |-> 404]
            /\ UNCHANGED posts
       ELSE LET obj == CHOOSE p \in posts : p.id = pk
                new == PostSerializer_update(obj, payload)
            IN IF ~IsAuthorOrReadOnly(requester, obj)
               THEN /\ resp' = [op |-> "PostUpdate", requester |-> requester,
                                method |-> method, pk |-> pk, status |-> 403]
                    /\ UNCHANGED posts
               ELSE IF PostSerializer_errors(payload, method = "PATCH") # {}
               THEN /\ resp' = [op |-> "PostUpdate", requester |-> requester,
                                method |-> method, pk |-> pk, status |-> 400]
                    /\ UNCHANGED posts
               ELSE IF new.author \notin members
               THEN /\ resp' = [op |-> "PostUpdate", requester |-> requester,
                                method |-> method, pk |-> pk, status |-> 500]
                    /\ UNCHANGED posts
               ELSE /\ posts' = (posts \ {obj}) \cup {new}
                    /\ resp' = [op |-> "PostUpdate", requester |-> requester,
                                method |-> method, pk |-> pk, status |-> 200]

CommentIds == 1..MaxComments

\* the body of a request to the comments endpoints
CommentPayload(given, post, content, author_id) ==
    [given |-> given,
     post |-> IF "post" \in given THEN post ELSE 0,
     content |-> IF "content" \in given THEN content ELSE <<>>,
     author_id |-> IF "author_id" \in given THEN author_id ELSE 0]

\* CommentSerializer.is_valid: the fields in error. post must name a Post
\* that exists; post and content are required unless the update is partial.
CommentSerializer_errors(payload, partial) ==
    (IF "post" \in payload.given
     THEN IF \E p \in posts : p.id = payload.post THEN {} ELSE {"post"}
     ELSE IF partial THEN {} ELSE {"post"})
    \cup
    (IF "content" \in payload.given
     THEN IF validate_content(payload.content).ok THEN {} ELSE {"content"}
     ELSE IF partial THEN {} ELSE {"content"})

\* ModelSerializer.update on a Comment
CommentSerializer_update(obj, payload) ==
    [obj EXCEPT !.post = IF "post" \in payload.given THEN payload.post ELSE @,
                !.content = IF "content" \in payload.given
                            THEN validate_content(payload.content).value ELSE @,
                !.author = IF "author_id" \in payload.given
                           THEN payload.author_id ELSE @]

\* CommentViewSet.create -> CommentSerializer.create: author_id is popped and
\* the author is request.user
CommentCreate(requester, payload) ==
    /\ requester \in members \cup {Anonymous}
    /\ nextCommentId <= MaxComments
    /\ UNCHANGED <<followers, posts, nextPostId, now, members, outsideVars>>
    /\ IF requester = Anonymous
       THEN /\ \E st \in Unauthenticated :
                 resp' = [op |-> "CommentCreate", requester |-> requester,
                          status |-> st]
            /\ UNCHANGED <<comments, nextCommentId>>
       ELSE IF CommentSerializer_errors(payload, FALSE) # {}
       THEN /\ resp' = [op |-> "CommentCreate", requester |-> requester,
                        status |-> 400]
            /\ UNCHANGED <<comments, nextCommentId>>
       ELSE /\ comments' = comments \cup
                 {[id |-> nextCommentId, post |-> payload.post,
                   author |-> requester,
                   content |-> validate_content(payload.content).value]}
            /\ nextCommentId' = nextCommentId + 1
            /\ resp' = [op |-> "CommentCreate", requester |-> requester,
                        status |-> 201, id |-> nextCommentId,
                        author_id |-> payload.author_id]

\* CommentViewSet.retrieve, and HEAD and OPTIONS of /api/comments/<pk>/
CommentRetrieve(requester, method, pk) ==
    /\ requester \in members \cup {Anonymous}
    /\ method \in ReadMethods
    /\ resp' = [op |-> "CommentRetrieve", requester |-> requester,
                method |-> method, pk |-> pk,
                status |-> IF method = "OPTIONS" \/ \E c \in comments : c.id = pk
                           THEN 200 ELSE 404]
    /\ UNCHANGED <<followers, posts, nextPostId, now, contentVars, outsideVars>>

\* CommentViewSet.update / partial_update
CommentUpdate(requester, pk, method, payload) ==
    /\ requester \in members \cup {Anonymous}
    /\ method \in UpdateMethods
    /\ UNCHANGED <<followers, posts, nextPostId, now, nextCommentId, members, outsideVars>>
    /\ IF requester = Anonymous
       THEN /\ \E st \in Unauthenticated :
                 resp' = [op |-> "CommentUpdate", requester |-> requester,
                          method |-> method, pk |-> pk, status |-> st]
            /\ UNCHANGED comments
       ELSE IF ~\E c \in comments : c.id = pk
       THEN /\ resp' = [op |-> "CommentUpdate", requester |-> requester,
                        method |-> method, pk |-> pk, status |-> 404]
            /\ UNCHANGED comments
       ELSE LET obj == CHOOSE c \in comments : c.id = pk
                new == CommentSerializer_update(obj, payload)
            IN IF ~IsAuthorOrReadOnly(requester, obj)
               THEN /\ resp' = [op |-> "CommentUpdate", requester |-> requester,
                                method |-> method, pk |-> pk, status |-> 403]
                    /\ UNCHANGED comments
               ELSE IF CommentSerializer_errors(payload, method = "PATCH") # {}
               THEN /\ resp' = [op |-> "CommentUpdate", requester |-> requester,
                                method |-> method, pk |-> pk, status |-> 400]
                    /\ UNCHANGED comments
               ELSE IF new.author \notin members
               THEN /\ resp' = [op |-> "CommentUpdate", requester |-> requester,
                                method |-> method, pk |-> pk, status |-> 500]
                    /\ UNCHANGED comments
               ELSE /\ comments' = (comments \ {obj}) \cup {new}
                    /\ resp' = [op |-> "CommentUpdate", requester |-> requester,
                                method |-> method, pk |-> pk, status |-> 200]

\* CommentViewSet.destroy
CommentDestroy(requester, pk) ==
    /\ requester \in members \cup {Anonymous}
    /\ UNCHANGED <<followers, posts, nextPostId, now, nextCommentId, members, outsideVars>>
    /\ IF requester = Anonymous
       THEN /\ \E st \in Unauthenticated :
                 resp' = [op |-> "CommentDestroy", requester |-> requester,
                          method |-> "DELETE", pk |-> pk, status |-> st]
            /\ UNCHANGED comments
       ELSE IF ~\E c \in comments : c.id = pk
       THEN /\ resp' = [op |-> "CommentDestroy", requester |-> requester,
                        method |-> "DELETE", pk |-> pk, status |-> 404]
            /\ UNCHANGED comments
       ELSE LET obj == CHOOSE c \in comments : c.id = pk
            IN IF ~IsAuthorOrReadOnly(requester, obj)
               THEN /\ resp' = [op |-> "CommentDestroy", requester |-> requester,
                                method |-> "DELETE", pk |-> pk, status |-> 403]
                    /\ UNCHANGED comments
               ELSE /\ comments' = comments \ {obj}
                    /\ resp' = [op |-> "CommentDestroy", requester |-> requester,
                                method |-> "DELETE", pk |-> pk, status |-> 204]

\* =====================================================================
\* advanced_features_and_security: bookshelf permissions
\* =====================================================================
\* the users of the permission tests: one member of each group, a user with
\* no permission, and a superuser
ShelfUsers == {"viewer", "editor", "admin", "plain", "super"}
AnonymousUser == "anonymous"
ShelfRequesters == ShelfUsers \cup {AnonymousUser}

\* user.groups
GroupsOf(u) ==
    CASE u = "viewer" -> {"Viewers"}
      [] u = "editor" -> {"Editors"}
      [] u = "admin" -> {"Admins"}
      [] OTHER -> {}

\* group.permissions: the codenames of Book.Meta.permissions given to a group
GroupCodenames(g) ==
    CASE g = "Viewers" -> {"can_view"}
      [] g = "Editors" -> {"can_view", "can_create", "can_edit"}
      [] g = "Admins" -> {"can_view", "can_create", "can_edit", "can_delete"}

is_superuser(u) == u = "super"

\* The label of the app: the last component of its module path
\* LibraryProject.bookshelf (a label is one identifier).
AppLabel == "bookshelf"

\* ModelBackend.get_all_permissions: the names "<app_label>.<codename>". A
\* dotted name is the tuple of its components.
get_all_permissions(u) ==
    {<<AppLabel, c>> : c \in UNION {GroupCodenames(g) : g \in GroupsOf(u)}}

\* user.has_perm(perm): an active superuser has every permission; otherwise
\* the name must be one of get_all_permissions
has_perm(u, perm) ==
    /\ u # AnonymousUser
    /\ \/ is_superuser(u)
       \/ perm \in get_all_permissions(u)

ShelfViews == {"book_list", "book_detail", "add_book", "edit_book", "delete_book"}
PkViews == {"book_detail", "edit_book", "delete_book"}

\* the argument of each view's @permission_required(..., raise_exception=True)
RequiredPermission(view) ==
    CASE view \in {"book_list", "book_detail"} ->
            <<"LibraryProject", "bookshelf", "can_view">>
      [] view \in {"add_book", "add_review"} ->
            <<"LibraryProject", "bookshelf", "can_create">>
      [] view = "edit_book" -> <<"LibraryProject", "bookshelf", "can_edit">>
      [] view = "delete_book" -> <<"LibraryProject", "bookshelf", "can_delete">>

BookPks == 1..MaxBooks
NoPk == 0

\* GET of a bookshelf view: 403 from permission_required, 404 from
\* get_object_or_404, else the page
ShelfGet(u, view, pk) ==
    /\ shelfResp' =
         [op |-> "GET", user |-> u, view |-> view, pk |-> pk,
          status |-> IF ~has_perm(u, RequiredPermission(view)) THEN 403
                     ELSE IF view \in PkViews /\ ~\E b \in books : b.pk = pk
                     THEN 404
                     ELSE 200]
    /\ UNCHANGED <<books, reviews, nextBookPk, nextReviewPk, pending, nonShelfVars>>

\* =====================================================================
\* bookshelf: books and SecureBookForm
\* =====================================================================
Digits == {"0", "1", "2", "3", "4", "5", "6", "7", "8", "9"}
IsDigit(c) == c \in Digits
\* ''.join(filter(str.isdigit, isbn))
OnlyDigits(raw) == SelectSeq(raw, IsDigit)

\* Book.isbn: CharField(max_length=13, unique=True)
IsbnLength == 13
Repeat(c, n) == [i \in 1..n |-> c]
\* the ISBN texts a request may carry: two well-formed ones, one of 13
\* characters with a dash, one of 14 characters whose digits are IsbnA, and ''
IsbnA == Repeat("0", IsbnLength - 1) \o <<"1">>
IsbnB == Repeat("0", IsbnLength - 1) \o <<"2">>
IsbnDashed == <<"-">> \o Repeat("0", IsbnLength - 2) \o <<"1">>
IsbnLong == <<"-">> \o IsbnA
RawIsbns == {IsbnA, IsbnB, IsbnDashed, IsbnLong, <<>>}
\* the isbn parameter of an edit_book request; Absent when it is not sent
Absent == <<"absent">>
EditIsbns == {IsbnA, IsbnB, IsbnLong, Absent}

\* mutant: the isbn column without its unique constraint
unique_isbn_violation_off(bks, pk, isbn) == FALSE

\* the database's unique constraint on Book.isbn: storing isbn in the row pk
\* (NoPk for a new row) fails with IntegrityError
unique_isbn_violation(bks, pk, isbn) ==
    \E b \in bks : b.isbn = isbn /\ b.pk # pk

\* SecureBookForm's isbn field (required, max_length=13) and clean_isbn; the
\* form has no instance, so exclude(pk=None) excludes no row
clean_isbn(bks, raw) ==
    LET isbn == OnlyDigits(raw)
    IN [ok |-> /\ raw # <<>>
               /\ Len(raw) <= IsbnLength
               /\ Len(isbn) = IsbnLength
               /\ ~\E b \in bks : b.isbn = isbn,
        value |-> isbn]

\* SecureBookForm.is_valid: the fields in error; othersValid says whether
\* title, author and publication_date pass their checks
SecureBookForm_errors(bks, raw, othersValid) ==
    (IF clean_isbn(bks, raw).ok THEN {} ELSE {"isbn"})
        \cup (IF othersValid THEN {} ELSE {"other"})

\* add_book, POST, up to form.is_valid()
AddBookValidate(u, raw, othersValid) ==
    /\ BagCardinality(pending) < MaxInFlight
    /\ UNCHANGED <<books, reviews, nextBookPk, nextReviewPk, nonShelfVars>>
    /\ IF ~has_perm(u, RequiredPermission("add_book"))
       THEN /\ shelfResp' = [op |-> "add_book", phase |-> "validate", user |-> u,
                             raw |-> raw, status |-> 403, errors |-> {}]
            /\ UNCHANGED pending
       ELSE LET errs == SecureBookForm_errors(books, raw, othersValid)
            IN /\ shelfResp' = [op |-> "add_book", phase |-> "validate", user |-> u,
                                raw |-> raw, status |-> 200, errors |-> errs]
               /\ pending' =
                    IF errs = {}
                    THEN pending (+) SetToBag(
                           {[kind |-> "add_book", user |-> u,
                             isbn |-> clean_isbn(books, raw).value,
                             book |-> NoPk, instance |-> NoPk, rating |-> 0]})
                    ELSE pending

\* add_book, POST, form.save() and what follows; an exception of save() is
\* caught and reported on the page
AddBookSave(req) ==
    /\ BagIn(req, pending)
    /\ req.kind = "add_book"
    /\ pending' = pending (-) SetToBag({req})
    /\ UNCHANGED <<reviews, nextReviewPk, nonShelfVars>>
    /\ IF unique_isbn_violation(books, NoPk, req.isbn)
       THEN /\ shelfResp' = [op |-> "add_book", phase |-> "save", user |-> req.user,
                             isbn |-> req.isbn, status |-> 200,
                             error |-> "IntegrityError", created |-> FALSE]
            /\ UNCHANGED <<books, nextBookPk>>
       ELSE /\ nextBookPk <= MaxBooks
            /\ books' = books \cup
                 {[pk |-> nextBookPk, isbn |-> req.isbn]}
            /\ nextBookPk' = nextBookPk + 1
            /\ shelfResp' = [op |-> "add_book", phase |-> "save", user |-> req.user,
                             isbn |-> req.isbn, status |-> 302,
                             error |-> "", created |-> TRUE]

\* SecureBookForm(data=..., user=u) used directly: is_valid(), then save()
SecureBookFormSubmit(u, raw, othersValid) ==
    /\ u \in ShelfUsers
    /\ UNCHANGED <<reviews, nextReviewPk, pending, nonShelfVars>>
    /\ LET errs == SecureBookForm_errors(books, raw, othersValid)
           isbn == clean_isbn(books, raw).value
       IN IF errs # {}
          THEN /\ shelfResp' = [op |-> "SecureBookForm", user |-> u, raw |-> raw,
                                errors |-> errs, created |-> FALSE]
               /\ UNCHANGED <<books, nextBookPk>>
          ELSE /\ nextBookPk <= MaxBooks
               /\ books' = books \cup
                    {[pk |-> nextBookPk, isbn |-> isbn]}
               /\ nextBookPk' = nextBookPk + 1
               /\ shelfResp' = [op |-> "SecureBookForm", user |-> u, raw |-> raw,
                                errors |-> errs, created |-> TRUE]

\* Book.title and Book.author: CharField(max_length=200), (max_length=100);
\* clean_title and clean_author refuse a text shorter than 2
TitleMaxLength == 200
AuthorMaxLength == 100
MinTextLength == 2

\* mutant: escape that leaves every character as it is
escape_char_off(c) == <<c>>

\* what django.utils.html.escape makes of one character
escape_char(c) ==
    CASE c = "&" -> <<"&", "a", "m", "p", ";">>
      [] c = "<" -> <<"&", "l", "t", ";">>
      [] c = ">" -> <<"&", "g", "t", ";">>
      [] c = "\"" -> <<"&", "q", "u", "o", "t", ";">>
      [] c = "'" -> <<"&", "#", "x", "2", "7", ";">>
      [] OTHER -> <<c>>

\* django.utils.html.escape: every HTML-special character of the text
\* replaced by its entity (the text is split in halves to keep the
\* evaluation shallow)
RECURSIVE escape(_)
escape(text) ==
    IF text = <<>> THEN <<>>
    ELSE IF Len(text) = 1 THEN escape_char(text[1])
    ELSE escape(SubSeq(text, 1, Len(text) \div 2))
           \o escape(SubSeq(text, Len(text) \div 2 + 1, Len(text)))

\* a text field of SecureBookForm cleaned: forms.CharField strips the text,
\* requires it and validates max_length; then clean_<field> escapes the
\* stripped text and checks the length of the escaped text
clean_text(raw, max_length) ==
    LET value == strip(raw)
        escaped == escape(value)
    IN [ok |-> /\ value # <<>>
               /\ Len(value) <= max_length
               /\ Len(escaped) >= MinTextLength
               /\ Len(escaped) <= max_length,
        value |-> escaped]

\* SecureBookForm.clean_title after the title field's own validation
clean_title(raw) == clean_text(raw, TitleMaxLength)

\* SecureBookForm.clean_author after the author field's own validation
clean_author(raw) == clean_text(raw, AuthorMaxLength)

\* SecureBookForm(data={title, author, isbn, publication_date}, user=u) with a
\* publication date that passes: is_valid(), then save() when it is valid.
\* cleaned_data holds the fields that passed.
SecureBookFormClean(u, title, author, raw) ==
    /\ u \in ShelfUsers
    /\ UNCHANGED <<reviews, nextReviewPk, pending, nonShelfVars>>
    /\ LET errs == SecureBookForm_errors(books, raw, TRUE)
                     \cup (IF clean_title(title).ok THEN {} ELSE {"title"})
                     \cup (IF clean_author(author).ok THEN {} ELSE {"author"})
           cleaned == [title |-> IF clean_title(title).ok
                                 THEN clean_title(title).value ELSE <<>>,
                       author |-> IF clean_author(author).ok
                                  THEN clean_author(author).value ELSE <<>>]
       IN IF errs # {}
          THEN /\ shelfResp' = [op |-> "SecureBookForm.clean", title |-> title,
                                author |-> author, errors |-> errs,
                                cleaned_data |-> cleaned, created |-> FALSE]
               /\ UNCHANGED <<books, nextBookPk>>
          ELSE /\ nextBookPk <= MaxBooks
               /\ books' = books \cup
                    {[pk |-> nextBookPk, isbn |-> clean_isbn(books, raw).value]}
               /\ nextBookPk' = nextBookPk + 1
               /\ shelfResp' = [op |-> "SecureBookForm.clean", title |-> title,
                                author |-> author, errors |-> errs,
                                cleaned_data |-> cleaned, created |-> TRUE]

\* the title texts tried: none, blank, one letter, a
\* name, markup, an ampersand and quotes, and texts at the limits of length
ScriptTag == <<"<", "s", "c", "r", "i", "p", "t", ">">>
TitleInputTexts(max_length) ==
    {<<>>, <<Space>>, <<"A">>, <<"A", "B">>, ScriptTag,
     <<"a", "&", "\"", "'", "b">>,
     Repeat("A", max_length), Repeat("A", max_length + 1),
     Repeat("A", max_length) \o <<Space>>,
     Repeat("A", max_length - 1) \o <<"<">>}

\* the author texts tried: none, a name, markup, and one past the limit
AuthorInputs ==
    {<<>>, <<"A", "B">>, <<"<", "i", "m", "g", ">">>,
     Repeat("A", AuthorMaxLength + 1)}

\* edit_book, POST: book.isbn = request.POST.get('isbn', book.isbn); book.save().
\* The text is stored as sent. A text longer than the column is refused by
\* some databases and stored by others. The redirect names 'book_detail'
\* outside the app's namespace.
EditBookPost(u, pk, raw, stored) ==
    /\ UNCHANGED <<reviews, nextBookPk, nextReviewPk, pending, nonShelfVars>>
    /\ IF ~has_perm(u, RequiredPermission("edit_book"))
       THEN /\ shelfResp' = [op |-> "edit_book", user |-> u, pk |-> pk, raw |-> raw,
                             status |-> 403, error |-> ""]
            /\ UNCHANGED books
       ELSE IF ~\E b \in books : b.pk = pk
       THEN /\ shelfResp' = [op |-> "edit_book", user |-> u, pk |-> pk, raw |-> raw,
                             status |-> 404, error |-> ""]
            /\ UNCHANGED books
       ELSE LET book == CHOOSE b \in books : b.pk = pk
                isbn == IF raw = Absent THEN book.isbn ELSE raw
            IN IF unique_isbn_violation(books, pk, isbn)
               THEN /\ shelfResp' = [op |-> "edit_book", user |-> u, pk |-> pk,
                                     raw |-> raw, status |-> 500,
                                     error |-> "IntegrityError"]
                    /\ UNCHANGED books
               ELSE IF Len(isbn) > IsbnLength /\ ~stored
               THEN /\ shelfResp' = [op |-> "edit_book", user |-> u, pk |-> pk,
                                     raw |-> raw, status |-> 500,
                                     error |-> "DataError"]
                    /\ UNCHANGED books
               ELSE /\ books' = (books \ {book}) \cup {[book EXCEPT !.isbn = isbn]}
                    /\ \E st \in {302, 500} :
                         shelfResp' = [op |-> "edit_book", user |-> u, pk |-> pk,
                                       raw |-> raw, status |-> st,
                                       error |-> IF st = 500 THEN "NoReverseMatch"
                                                 ELSE ""]

\* delete_book, POST: book.delete() cascades to the book's reviews
DeleteBookPost(u, pk) ==
    /\ UNCHANGED <<nextBookPk, nextReviewPk, pending, nonShelfVars>>
    /\ IF ~has_perm(u, RequiredPermission("delete_book"))
       THEN /\ shelfResp' = [op |-> "delete_book", user |-> u, pk |-> pk,
                             status |-> 403]
            /\ UNCHANGED <<books, reviews>>
       ELSE IF ~\E b \in books : b.pk = pk
       THEN /\ shelfResp' = [op |-> "delete_book", user |-> u, pk |-> pk,
                             status |-> 404]
            /\ UNCHANGED <<books, reviews>>
       ELSE /\ books' = {b \in books : b.pk # pk}
            /\ reviews' = {r \in reviews : r.book # pk}
            /\ \E st \in {302, 500} :
                 shelfResp' = [op |-> "delete_book", user |-> u, pk |-> pk,
                               status |-> st]

\* =====================================================================
\* bookshelf: reviews, SecureReviewForm and add_review
\* =====================================================================
\* RATING_CHOICES of SecureReviewForm
MinRating == 1
MaxRating == 5
\* the ratings a request may carry: the two ends of the range and the first
\* value above it
RatingInputs == {MinRating, MaxRating, MaxRating + 1}
clean_rating(rating) == rating >= MinRating /\ rating <= MaxRating

\* the database's unique_together = ['book', 'reviewer'] on BookReview
unique_together_violation(rvs, pk, book, reviewer) ==
    \E r \in rvs : r.book = book /\ r.reviewer = reviewer /\ r.pk # pk

\* the foreign key BookReview.book
book_exists(bks, book) == \E b \in bks : b.pk = book

\* SecureReviewForm.clean for a form bound to (user, book) whose instance has
\* primary key instance (NoPk without an instance): a review of the pair
\* other than the instance rejects the form
SecureReviewForm_clean(rvs, user, book, instance) ==
    ~\E r \in rvs : r.reviewer = user /\ r.book = book /\ r.pk # instance

AlreadyReviewed == "You have already reviewed this book."

\* SecureReviewForm.is_valid: the messages of the failed checks
SecureReviewForm_errors(rvs, user, book, instance, rating) ==
    (IF clean_rating(rating) THEN {} ELSE {"rating"})
        \cup (IF SecureReviewForm_clean(rvs, user, book, instance) THEN {}
              ELSE {AlreadyReviewed})

\* review.save(): UPDATE of the row instance when it is there, else INSERT.
\* The result names the exception, "" when the rows were written.
review_save(bks, rvs, newPk, user, book, instance, rating) ==
    IF ~book_exists(bks, book)
    THEN [error |-> "IntegrityError", rows |-> rvs, inserted |-> FALSE]
    ELSE IF unique_together_violation(rvs, instance, book, user)
    THEN [error |-> "IntegrityError", rows |-> rvs, inserted |-> FALSE]
    ELSE IF \E r \in rvs : r.pk = instance
    THEN [error |-> "",
          rows |-> {IF r.pk = instance
                    THEN [r EXCEPT !.rating = rating, !.book = book,
                                   !.reviewer = user]
                    ELSE r : r \in rvs},
          inserted |-> FALSE]
    ELSE [error |-> "",
          rows |-> rvs \cup {[pk |-> IF instance = NoPk THEN newPk ELSE instance,
                              book |-> book, reviewer |-> user,
                              rating |-> rating]},
          inserted |-> instance = NoPk]

\* POST /bookshelf/book/<int:pk>/add-review/ as routed by urls.py: the
\* permission check, then views.add_review(request, pk=pk), whose parameter
\* is named book_pk
AddReviewRequest(u, pk) ==
    /\ shelfResp' =
         [op |-> "add_review", via |-> "url", user |-> u, book |-> pk,
          status |-> IF ~has_perm(u, RequiredPermission("add_review")) THEN 403
                     ELSE 500,
          error |-> IF ~has_perm(u, RequiredPermission("add_review")) THEN ""
                    ELSE "TypeError"]
    /\ UNCHANGED <<books, reviews, nextBookPk, nextReviewPk, pending, nonShelfVars>>

\* add_review(request, book_pk=...), POST, up to form.is_valid()
AddReviewValidate(u, book_pk, rating) ==
    /\ BagCardinality(pending) < MaxReviewsInFlight
    /\ UNCHANGED <<books, reviews, nextBookPk, nextReviewPk, nonShelfVars>>
    /\ IF ~has_perm(u, RequiredPermission("add_review"))
       THEN /\ shelfResp' = [op |-> "add_review", via |-> "call",
                             phase |-> "validate", user |-> u, book |-> book_pk,
                             status |-> 403, errors |-> {}]
            /\ UNCHANGED pending
       ELSE IF ~book_exists(books, book_pk)
       THEN /\ shelfResp' = [op |-> "add_review", via |-> "call",
                             phase |-> "validate", user |-> u, book |-> book_pk,
                             status |-> 404, errors |-> {}]
            /\ UNCHANGED pending
       ELSE LET found == {r \in reviews : r.book = book_pk /\ r.reviewer = u}
                instance == IF found = {} THEN NoPk
                            ELSE (CHOOSE r \in found : TRUE).pk
                errs == SecureReviewForm_errors(reviews, u, book_pk, instance, rating)
            IN /\ shelfResp' = [op |-> "add_review", via |-> "call",
                                phase |-> "validate", user |-> u,
                                book |-> book_pk, status |-> 200, errors |-> errs]
               /\ pending' =
                    IF errs = {}
                    THEN pending (+) SetToBag(
                           {[kind |-> "add_review", user |-> u,
                             isbn |-> <<>>, book |-> book_pk,
                             instance |-> instance, rating |-> rating]})
                    ELSE pending

\* add_review, POST, form.save() and what follows. Without an existing review
\* the name existing_review is unbound when the log line reads it: the
\* exception is caught after the review was saved.
AddReviewSave(req) ==
    /\ BagIn(req, pending)
    /\ req.kind = "add_review"
    /\ pending' = pending (-) SetToBag({req})
    /\ UNCHANGED <<books, nextBookPk, nonShelfVars>>
    /\ LET saved == review_save(books, reviews, nextReviewPk, req.user, req.book,
                                req.instance, req.rating)
           error == IF saved.error # "" THEN saved.error
                    ELSE IF req.instance = NoPk THEN "UnboundLocalError"
                    ELSE ""
       IN /\ saved.inserted => nextReviewPk <= MaxReviews
          /\ reviews' = saved.rows
          /\ nextReviewPk' = IF saved.inserted THEN nextReviewPk + 1
                             ELSE nextReviewPk
          /\ shelfResp' = [op |-> "add_review", via |-> "call", phase |-> "save",
                           user |-> req.user, book |-> req.book,
                           instance |-> req.instance,
                           status |-> IF error = "" THEN 302 ELSE 200,
                           error |-> error, inserted |-> saved.inserted]

\* SecureReviewForm(data, user=u, book=book) without an instance: is_valid(),
\* then save()
SecureReviewFormSubmit(u, book, rating) ==
    /\ u \in ShelfUsers
    /\ book_exists(books, book)
    /\ UNCHANGED <<books, nextBookPk, pending, nonShelfVars>>
    /\ LET errs == SecureReviewForm_errors(reviews, u, book, NoPk, rating)
           saved == review_save(books, reviews, nextReviewPk, u, book, NoPk, rating)
       IN IF errs # {}
          THEN /\ shelfResp' = [op |-> "SecureReviewForm", user |-> u,
                                book |-> book,
                                errors |-> errs, inserted |-> FALSE]
               /\ UNCHANGED <<reviews, nextReviewPk>>
          ELSE /\ nextReviewPk <= MaxReviews
               /\ reviews' = saved.rows
               /\ nextReviewPk' = nextReviewPk + 1
               /\ shelfResp' = [op |-> "SecureReviewForm", user |-> u,
                                book |-> book,
                                errors |-> errs, inserted |-> saved.inserted]

InitShelf ==
    /\ books = {}
    /\ reviews = {}
    /\ nextBookPk = 1
    /\ nextReviewPk = 1
    /\ pending = EmptyBag
    /\ shelfResp = [op |-> "none"]

\* the clients of the requests that write: the superuser, a group member and
\* an anonymous client
BookClients == {"super", "editor", AnonymousUser}
ReviewClients == {"super", "viewer", AnonymousUser}
\* the users of the forms used directly
FormUsers == {"super", "viewer"}

\* the permission matrix: GET of every view by every user, over books that
\* come and go
NextShelf ==
    \/ \E u \in ShelfRequesters, view \in ShelfViews, pk \in BookPks :
         ShelfGet(u, view, pk)
    \/ \E u \in FormUsers, raw \in {IsbnA, IsbnB} :
         SecureBookFormSubmit(u, raw, TRUE)
    \/ \E u \in ShelfRequesters, pk \in BookPks : DeleteBookPost(u, pk)

\* SecureBookForm with its text fields
NextForm ==
    \E title \in TitleInputTexts(TitleMaxLength),
       author \in AuthorInputs, raw \in {IsbnA, IsbnB} :
      SecureBookFormClean("editor", title, author, raw)

\* the writes of books
NextBooks ==
    \/ \E u \in BookClients, raw \in RawIsbns, othersValid \in BOOLEAN :
         AddBookValidate(u, raw, othersValid)
    \/ \E req \in BagToSet(pending) : AddBookSave(req)
    \/ \E u \in FormUsers, raw \in RawIsbns, othersValid \in BOOLEAN :
         SecureBookFormSubmit(u, raw, othersValid)
    \/ \E u \in BookClients, pk \in BookPks, raw \in EditIsbns,
          stored \in BOOLEAN :
         EditBookPost(u, pk, raw, stored)

\* the writes of reviews, over books made with the form
NextReviews ==
    \/ \E raw \in {IsbnA, IsbnB} : SecureBookFormSubmit("super", raw, TRUE)
    \/ \E u \in ReviewClients, pk \in BookPks : AddReviewRequest(u, pk)
    \/ \E u \in ReviewClients, pk \in BookPks, rating \in RatingInputs :
         AddReviewValidate(u, pk, rating)
    \/ \E req \in BagToSet(pending) : AddReviewSave(req)
    \/ \E u \in FormUsers, pk \in BookPks, rating \in RatingInputs :
         SecureReviewFormSubmit(u, pk, rating)

\* =====================================================================
\* registration: social_media_api UserRegistrationView and
\* relationship_app CustomUserCreationForm
\* =====================================================================
\* the password texts a request may carry: a word, the word followed by a
\* space, another word, and a lone space
PasswordInputs == {<<"a">>, <<"a", Space>>, <<"b">>, <<Space>>}
Usernames == {"alice", "bob"}
Emails == {<<"alice", "example.com">>, <<"bob", "example.com">>}

\* mutant: validate without the comparison
passwords_match_off(attrs) == TRUE

\* UserRegistrationSerializer.validate: attrs holds the fields' values
passwords_match(attrs) == attrs.password = attrs.password_confirm

\* UserRegistrationSerializer.is_valid: the keys of the error map. The
\* fields run first (a blank text is refused; strong is the verdict of
\* validate_password, whose validators are settings); validate() runs when no
\* field failed.
UserRegistrationSerializer_errors(accts, username, email, password, password_confirm, strong) ==
    LET attrs == [password |-> strip(password),
                  password_confirm |-> strip(password_confirm)]
        fields ==
            (IF \E a \in accts : a.username = username THEN {"username"} ELSE {})
              \cup (IF \E a \in accts : a.email = email THEN {"email"} ELSE {})
              \cup (IF attrs.password = <<>> \/ ~strong THEN {"password"} ELSE {})
              \cup (IF attrs.password_confirm = <<>> THEN {"password_confirm"}
                    ELSE {})
    IN IF fields # {} THEN fields
       ELSE IF ~passwords_match(attrs) THEN {"password"}
       ELSE {}

\* Token.objects.create(user=user): a row with a key no token was given
\* before (keys are random 40-digit hexadecimals, counted here)
Token_create(rows, user, key) == rows \cup {[user |-> user, key |-> key]}

\* POST /api/accounts/register/: UserRegistrationView.create, with
\* UserRegistrationSerializer.create (create_user, which normalizes the
\* email, and Token.objects.create), as one step
UserRegistrationView(username, email, password, password_confirm, strong) ==
    /\ UNCHANGED <<formUsers, validated, nonRegVars>>
    /\ LET errs == UserRegistrationSerializer_errors(
                       accounts, username, email, password, password_confirm,
                       strong)
           id == Cardinality(accounts) + 1
       IN IF errs # {}
          THEN /\ regResp' = [op |-> "register", password |-> password,
                              password_confirm |-> password_confirm,
                              status |-> 400, errors |-> errs]
               /\ UNCHANGED <<accounts, tokens, nextKey>>
          ELSE /\ id <= MaxAccounts
               /\ nextKey <= MaxKeys
               /\ accounts' = accounts \cup
                    {[id |-> id, username |-> username,
                      email |-> normalize_email(email),
                      password |-> strip(password)]}
               /\ tokens' = Token_create(tokens, id, nextKey)
               /\ nextKey' = nextKey + 1
               /\ regResp' = [op |-> "register", password |-> password,
                              password_confirm |-> password_confirm,
                              status |-> 201, errors |-> {}]

\* POST /api/accounts/register/, first half: serializer.is_valid(). A
\* request that passes waits in validated until its save; the rows it was
\* checked against may change in between.
UserRegistrationValidate(username, email, password) ==
    /\ Cardinality(accounts) + BagCardinality(validated) < MaxAccounts
    /\ UNCHANGED <<accounts, tokens, nextKey, formUsers, nonRegVars>>
    /\ LET errs == UserRegistrationSerializer_errors(
                       accounts, username, email, password, password, TRUE)
       IN IF errs # {}
          THEN /\ regResp' = [op |-> "is_valid", username |-> username,
                              email |-> email, status |-> 400,
                              errors |-> errs]
               /\ UNCHANGED validated
          ELSE /\ validated' = validated (+) SetToBag(
                     {[username |-> username, email |-> email,
                       password |-> strip(password)]})
               /\ regResp' = [op |-> "is_valid", username |-> username,
                              email |-> email, status |-> 0, errors |-> {}]

\* POST /api/accounts/register/, second half: serializer.save(), that is
\* create_user and Token.objects.create. AbstractUser.username is unique in
\* the database: the INSERT of a held username raises IntegrityError, which
\* nothing catches (status 500). AbstractUser.email has no constraint.
UserRegistrationSave(req) ==
    /\ BagIn(req, validated)
    /\ validated' = validated (-) SetToBag({req})
    /\ UNCHANGED <<formUsers, nonRegVars>>
    /\ LET id == Cardinality(accounts) + 1
       IN IF \E a \in accounts : a.username = req.username
          THEN /\ regResp' = [op |-> "save", username |-> req.username,
                              email |-> req.email, status |-> 500,
                              errors |-> {}]
               /\ UNCHANGED <<accounts, tokens, nextKey>>
          ELSE /\ nextKey <= MaxKeys
               /\ accounts' = accounts \cup
                    {[id |-> id, username |-> req.username,
                      email |-> normalize_email(req.email),
                      password |-> req.password]}
               /\ tokens' = Token_create(tokens, id, nextKey)
               /\ nextKey' = nextKey + 1
               /\ regResp' = [op |-> "save", username |-> req.username,
                              email |-> req.email, status |-> 201,
                              errors |-> {}]

\* CustomUserCreationForm.is_valid: the fields in error. password1 and
\* password2 are required; clean_password2 compares them when both are there;
\* othersValid says whether the model's fields pass.
CustomUserCreationForm_errors(password1, password2, othersValid) ==
    LET p1 == strip(password1)
        p2 == strip(password2)
    IN (IF p1 = <<>> THEN {"password1"} ELSE {})
         \cup (IF p2 = <<>> \/ (p1 # <<>> /\ p1 # p2) THEN {"password2"} ELSE {})
         \cup (IF othersValid THEN {} ELSE {"other"})

\* relationship_app register, POST: form.is_valid(), form.save(), login
register(password1, password2, othersValid) ==
    /\ UNCHANGED <<accounts, tokens, nextKey, validated, nonRegVars>>
    /\ LET errs == CustomUserCreationForm_errors(password1, password2, othersValid)
           id == Cardinality(formUsers) + 1
       IN IF errs # {}
          THEN /\ regResp' = [op |-> "form", password |-> password1,
                              password_confirm |-> password2,
                              status |-> 200, errors |-> errs]
               /\ UNCHANGED formUsers
          ELSE /\ id <= MaxAccounts
               /\ formUsers' = formUsers \cup
                    {[id |-> id, password |-> strip(password1)]}
               /\ regResp' = [op |-> "form", password |-> password1,
                              password_confirm |-> password2,
                              status |-> 302, errors |-> {}]

\* Token.objects.get_or_create(user=user): the rows afterwards
Token_get_or_create(rows, user, key) ==
    IF \E t \in rows : t.user = user THEN rows
    ELSE Token_create(rows, user, key)

\* django.contrib.auth.authenticate against the stored password: the users
\* that match (at most one, usernames are unique)
authenticate(accts, username, password) ==
    {a \in accts : a.username = username /\ a.password = password}

\* POST /api/accounts/login/: UserLoginView.post with
\* UserLoginSerializer.validate. Both fields are CharFields, so they arrive
\* stripped. With valid credentials validate() gets or creates the token, and
\* the view then puts validated_data['user'], a CustomUser instance, into the
\* Response, which the JSON renderer cannot encode: the request ends in 500
\* after the token was written.
UserLoginView(username, password) ==
    /\ UNCHANGED <<accounts, formUsers, validated, nonRegVars>>
    /\ LET found == authenticate(accounts, username, strip(password))
       IN IF strip(password) = <<>> \/ found = {}
          THEN /\ regResp' = [op |-> "login", username |-> username,
                              status |-> 400]
               /\ UNCHANGED <<tokens, nextKey>>
          ELSE LET user == CHOOSE a \in found : TRUE
                   created == ~\E t \in tokens : t.user = user.id
               IN /\ created => nextKey <= MaxKeys
                  /\ tokens' = Token_get_or_create(tokens, user.id, nextKey)
                  /\ nextKey' = IF created THEN nextKey + 1 ELSE nextKey
                  /\ regResp' = [op |-> "login", username |-> username,
                                 status |-> 500, user |-> user.id,
                                 created |-> created]

\* the key values a request may carry in its Authorization header; 0 for none
NoKey == 0
KeyInputs == 0..MaxKeys

\* POST /api/accounts/logout/: UserLogoutView.post, the requester
\* authenticated by the token key of the Authorization header
UserLogoutView(key) ==
    /\ UNCHANGED <<accounts, nextKey, formUsers, validated, nonRegVars>>
    /\ IF ~\E t \in tokens : t.key = key
       THEN /\ \E st \in Unauthenticated :
                 regResp' = [op |-> "logout", key |-> key, status |-> st]
            /\ UNCHANGED tokens
       ELSE /\ tokens' = {t \in tokens : t.key # key}
            /\ regResp' = [op |-> "logout", key |-> key, status |-> 200]

InitReg ==
    /\ accounts = {}
    /\ tokens = {}
    /\ nextKey = 1
    /\ formUsers = {}
    /\ regResp = [op |-> "none"]
    /\ validated = EmptyBag

NextReg ==
    \/ \E username \in Usernames, email \in Emails, password \in PasswordInputs,
          password_confirm \in PasswordInputs, strong \in BOOLEAN :
         UserRegistrationView(username, email, password, password_confirm, strong)
    \/ \E password1 \in PasswordInputs, password2 \in PasswordInputs,
          othersValid \in BOOLEAN :
         register(password1, password2, othersValid)

\* registrations whose validation and save interleave
RaceEmails == Emails \cup {<<"alice", "EXAMPLE.com">>}
NextRace ==
    \/ \E username \in Usernames, email \in RaceEmails :
         UserRegistrationValidate(username, email, <<"a">>)
    \/ \E req \in BagToSet(validated) : UserRegistrationSave(req)

\* the token lifecycle: registrations that pass validation, logins, logouts
NextTokens ==
    \/ \E username \in Usernames, email \in Emails :
         UserRegistrationView(username, email, <<"a">>, <<"a">>, TRUE)
    \/ \E username \in Usernames, password \in PasswordInputs :
         UserLoginView(username, password)
    \/ \E key \in KeyInputs : UserLogoutView(key)

\* =====================================================================
\* advanced-api-project: the book service
\* =====================================================================
\* Author rows (made outside the service, which has no endpoint for them)
\* and a primary key that no Author has
AuthorIds == {1, 2}
MissingAuthorId == 3
ApiBookIds == 1..MaxApiBooks

\* Years are counted from the year in which the service starts (year 0);
\* earlier years are negative.
\* mutant: the comparison with the current year made strict
validate_publication_year_strict(value, current_year) == ~(value >= current_year)

\* BookSerializer.validate_publication_year: TRUE when the value is returned,
\* FALSE when ValidationError is raised
validate_publication_year(value, current_year) == ~(value > current_year)

\* A request body: supplied names the fields sent; a field not sent holds a
\* filler that is never read.
Payload(supplied, title, publication_year, author) ==
    [supplied |-> supplied,
     title |-> IF "title" \in supplied THEN title ELSE <<>>,
     publication_year |-> IF "publication_year" \in supplied
                          THEN publication_year ELSE 0,
     author |-> IF "author" \in supplied THEN author ELSE 0]

BookFields == {"title", "publication_year", "author"}

\* BookSerializer.is_valid: the fields in error. Every field is required
\* unless the update is partial; title is trimmed and may not be blank;
\* author must be the key of an Author.
BookSerializer_errors(payload, partial, current_year) ==
    {f \in BookFields :
        IF f \notin payload.supplied THEN ~partial
        ELSE CASE f = "title" -> strip(payload.title) = <<>>
               [] f = "publication_year" ->
                    ~validate_publication_year(payload.publication_year,
                                               current_year)
               [] f = "author" -> payload.author \notin AuthorIds}

\* mutant: a save that writes every field of the body, sent or not
BookSerializer_update_all(book, payload) ==
    [id |-> book.id, title |-> strip(payload.title),
     publication_year |-> payload.publication_year, author |-> payload.author]

\* the instance after serializer.save(): the fields sent replace the old ones
BookSerializer_update(book, payload) ==
    [id |-> book.id,
     title |-> IF "title" \in payload.supplied THEN strip(payload.title)
               ELSE book.title,
     publication_year |-> IF "publication_year" \in payload.supplied
                          THEN payload.publication_year
                          ELSE book.publication_year,
     author |-> IF "author" \in payload.supplied THEN payload.author
                ELSE book.author]

\* mutant: a permission that lets every client through
IsAuthenticated_AllowAny(authenticated) == TRUE

\* permissions.IsAuthenticated
IsAuthenticated(authenticated) == authenticated

\* permissions.IsAuthenticatedOrReadOnly
SafeMethods == {"GET", "HEAD", "OPTIONS"}
IsAuthenticatedOrReadOnly(authenticated, method) ==
    method \in SafeMethods \/ authenticated

\* date.today().year moves on
NewYear ==
    /\ thisYear < MaxYears
    /\ thisYear' = thisYear + 1
    /\ apiResp' = [op |-> "new_year"]
    /\ UNCHANGED <<apiBooks, nextApiBookId, nonApiVars>>

\* GET /books/ (IsAuthenticatedOrReadOnly): every book, ordered by id
BookListView(authenticated) ==
    /\ IF ~IsAuthenticatedOrReadOnly(authenticated, "GET")
       THEN \E st \in Unauthenticated :
                apiResp' = [op |-> "list", authenticated |-> authenticated,
                            status |-> st, ids |-> {}]
       ELSE apiResp' = [op |-> "list", authenticated |-> authenticated,
                        status |-> 200, ids |-> {b.id : b \in apiBooks}]
    /\ UNCHANGED <<apiBooks, nextApiBookId, thisYear, nonApiVars>>

\* GET /books/<pk>/ (IsAuthenticatedOrReadOnly)
BookDetailView(authenticated, pk) ==
    /\ IF ~IsAuthenticatedOrReadOnly(authenticated, "GET")
       THEN \E st \in Unauthenticated :
                apiResp' = [op |-> "detail", authenticated |-> authenticated,
                            pk |-> pk, status |-> st]
       ELSE apiResp' = [op |-> "detail", authenticated |-> authenticated,
                        pk |-> pk,
                        status |-> IF \E b \in apiBooks : b.id = pk THEN 200
                                   ELSE 404]
    /\ UNCHANGED <<apiBooks, nextApiBookId, thisYear, nonApiVars>>

\* POST /books/create/ (IsAuthenticated)
BookCreateView(authenticated, payload) ==
    /\ UNCHANGED <<thisYear, nonApiVars>>
    /\ IF ~IsAuthenticated(authenticated)
       THEN /\ \E st \in Unauthenticated :
                 apiResp' = [op |-> "create", authenticated |-> authenticated,
                             payload |-> payload, status |-> st, errors |-> {}]
            /\ UNCHANGED <<apiBooks, nextApiBookId>>
       ELSE LET errs == BookSerializer_errors(payload, FALSE, thisYear)
            IN IF errs # {}
               THEN /\ apiResp' = [op |-> "create", authenticated |-> authenticated,
                                   payload |-> payload, status |-> 400,
                                   errors |-> errs]
                    /\ UNCHANGED <<apiBooks, nextApiBookId>>
               ELSE /\ nextApiBookId <= MaxApiBooks
                    /\ apiBooks' = apiBooks \cup
                         {BookSerializer_update([id |-> nextApiBookId], payload)}
                    /\ nextApiBookId' = nextApiBookId + 1
                    /\ apiResp' = [op |-> "create", authenticated |-> authenticated,
                                   payload |-> payload, status |-> 201,
                                   errors |-> {}, id |-> nextApiBookId]

\* PUT / PATCH /books/<pk>/update/ (IsAuthenticated): check_permissions,
\* get_object, serializer.is_valid, serializer.save
BookUpdateView(authenticated, pk, partial, payload) ==
    /\ UNCHANGED <<nextApiBookId, thisYear, nonApiVars>>
    /\ IF ~IsAuthenticated(authenticated)
       THEN /\ \E st \in Unauthenticated :
                 apiResp' = [op |-> "update", authenticated |-> authenticated,
                             pk |-> pk, partial |-> partial, payload |-> payload,
                             status |-> st, errors |-> {}]
            /\ UNCHANGED apiBooks
       ELSE IF ~\E b \in apiBooks : b.id = pk
       THEN /\ apiResp' = [op |-> "update", authenticated |-> authenticated,
                           pk |-> pk, partial |-> partial, payload |-> payload,
                           status |-> 404, errors |-> {}]
            /\ UNCHANGED apiBooks
       ELSE LET book == CHOOSE b \in apiBooks : b.id = pk
                errs == BookSerializer_errors(payload, partial, thisYear)
            IN IF errs # {}
               THEN /\ apiResp' = [op |-> "update", authenticated |-> authenticated,
                                   pk |-> pk, partial |-> partial,
                                   payload |-> payload, status |-> 400,
                                   errors |-> errs]
                    /\ UNCHANGED apiBooks
               ELSE /\ apiBooks' = (apiBooks \ {book})
                                     \cup {BookSerializer_update(book, payload)}
                    /\ apiResp' = [op |-> "update", authenticated |-> authenticated,
                                   pk |-> pk, partial |-> partial,
                                   payload |-> payload, status |-> 200,
                                   errors |-> {}]

\* DELETE /books/<pk>/delete/ (IsAuthenticated)
BookDeleteView(authenticated, pk) ==
    /\ UNCHANGED <<nextApiBookId, thisYear, nonApiVars>>
    /\ IF ~IsAuthenticated(authenticated)
       THEN /\ \E st \in Unauthenticated :
                 apiResp' = [op |-> "delete", authenticated |-> authenticated,
                             pk |-> pk, status |-> st]
            /\ UNCHANGED apiBooks
       ELSE IF ~\E b \in apiBooks : b.id = pk
       THEN /\ apiResp' = [op |-> "delete", authenticated |-> authenticated,
                           pk |-> pk, status |-> 404]
            /\ UNCHANGED apiBooks
       ELSE /\ apiBooks' = {b \in apiBooks : b.id # pk}
            /\ apiResp' = [op |-> "delete", authenticated |-> authenticated,
                           pk |-> pk, status |-> 204]

InitApi ==
    /\ apiBooks = {}
    /\ nextApiBookId = 1
    /\ thisYear = 0
    /\ apiResp = [op |-> "none"]

\* the titles a request may carry: a word, a word followed by a space, and ''
TitleInputs == {<<"x">>, <<"y", Space>>, <<>>}

\* bodies with every field, and the bodies of a PATCH with one field
FullPayloads(titles, years, authors) ==
    {Payload(BookFields, t, y, a) : t \in titles, y \in years, a \in authors}
OneFieldPayloads(years, authors) ==
    {Payload({"title"}, t, 0, 0) : t \in TitleInputs}
      \cup {Payload({"publication_year"}, <<>>, y, 0) : y \in years}
      \cup {Payload({"author"}, <<>>, 0, a) : a \in authors}

\* the book service within one year
NextApi ==
    LET years == {thisYear - 1, thisYear}
    IN \/ \E authenticated \in BOOLEAN : BookListView(authenticated)
       \/ \E authenticated \in BOOLEAN, pk \in ApiBookIds :
            BookDetailView(authenticated, pk)
       \/ \E authenticated \in BOOLEAN,
             payload \in FullPayloads(TitleInputs, {thisYear}, {1}) :
            BookCreateView(authenticated, payload)
       \/ \E authenticated \in BOOLEAN, pk \in ApiBookIds,
             payload \in OneFieldPayloads(years, AuthorIds) :
            BookUpdateView(authenticated, pk, TRUE, payload)
       \/ \E authenticated \in BOOLEAN, pk \in ApiBookIds,
             payload \in FullPayloads({<<"x">>}, years, AuthorIds) :
            BookUpdateView(authenticated, pk, FALSE, payload)
       \/ \E authenticated \in BOOLEAN, pk \in ApiBookIds :
            BookDeleteView(authenticated, pk)

\* the writes of publication_year by an authenticated client as the years
\* pass: last year, this year and next year, an Author that exists or not
NextYears ==
    LET years == (thisYear - 1)..(thisYear + 1)
        bodies == FullPayloads({<<"x">>}, years, {1, MissingAuthorId})
        patches == {Payload({"publication_year"}, <<>>, y, 0) : y \in years}
                     \cup {Payload({"title"}, <<"x">>, 0, 0)}
    IN \/ NewYear
       \/ \E payload \in bodies : BookCreateView(TRUE, payload)
       \/ \E pk \in ApiBookIds, payload \in patches :
            BookUpdateView(TRUE, pk, TRUE, payload)
       \/ \E pk \in ApiBookIds, payload \in bodies :
            BookUpdateView(TRUE, pk, FALSE, payload)
       \/ \E pk \in ApiBookIds : BookDeleteView(TRUE, pk)

\* =====================================================================
\* social_media_api: notifications
\* =====================================================================
NotificationIds == 1..MaxNotifications
\* the pk values a request names: the rows' and one that never names a row
NotificationPks == 1..(MaxNotifications + 1)
Verbs == {"liked your post"}

\* NotificationAdmin add form: one row with the next primary key; read takes
\* the value of the form (default False)
NotificationAdmin_add(recipient, actor, verb, read) ==
    /\ recipient \in members /\ actor \in members
    /\ nextNotificationId <= MaxNotifications
    /\ notifications' = notifications \cup
          {[id |-> nextNotificationId, recipient |-> recipient,
            actor |-> actor, verb |-> verb, read |-> read]}
    /\ nextNotificationId' = nextNotificationId + 1
    /\ notifResp' = [op |-> "NotificationAdmin_add", id |-> nextNotificationId]
    /\ UNCHANGED nonNotifVars

\* mutant: mark_as_read as an update of the whole table
mark_as_read_all(rows, n) ==
    {[m EXCEPT !.read = TRUE] : m \in rows}

\* Notification.mark_as_read on the instance n: the rows afterwards.
\* save(update_fields=['read']) writes the read column of the row of n.pk.
mark_as_read(rows, n) ==
    IF ~n.read
    THEN {IF m.id = n.id THEN [m EXCEPT !.read = TRUE] ELSE m : m \in rows}
    ELSE rows

\* Notification.mark_as_unread
mark_as_unread(rows, n) ==
    IF n.read
    THEN {IF m.id = n.id THEN [m EXCEPT !.read = FALSE] ELSE m : m \in rows}
    ELSE rows

\* get_object_or_404(Notification, pk=pk, recipient=request.user): the rows
\* that match (none: Http404)
get_notification_or_404(rows, pk, user) ==
    {n \in rows : n.id = pk /\ n.recipient = user}

\* notification.mark_as_read() on a freshly loaded instance
CallMarkAsRead(pk) ==
    /\ \E n \in notifications : n.id = pk
    /\ LET n == CHOOSE m \in notifications : m.id = pk
       IN /\ notifications' = mark_as_read(notifications, n)
          /\ notifResp' = [op |-> "mark_as_read", pk |-> pk,
                           wrote |-> ~n.read]
    /\ UNCHANGED <<nextNotificationId, nonNotifVars>>

\* notification.mark_as_unread() on a freshly loaded instance
CallMarkAsUnread(pk) ==
    /\ \E n \in notifications : n.id = pk
    /\ LET n == CHOOSE m \in notifications : m.id = pk
       IN /\ notifications' = mark_as_unread(notifications, n)
          /\ notifResp' = [op |-> "mark_as_unread", pk |-> pk,
                           wrote |-> n.read]
    /\ UNCHANGED <<nextNotificationId, nonNotifVars>>

\* MarkNotificationReadView.post: POST /api/notifications/<pk>/read/
MarkNotificationReadView(requester, pk) ==
    /\ requester \in members \cup {Anonymous}
    /\ UNCHANGED <<nextNotificationId, nonNotifVars>>
    /\ IF requester = Anonymous
       THEN /\ \E st \in Unauthenticated :
                 notifResp' = [op |-> "MarkNotificationReadView",
                               requester |-> requester, pk |-> pk,
                               status |-> st]
            /\ UNCHANGED notifications
       ELSE IF get_notification_or_404(notifications, pk, requester) = {}
       THEN /\ notifResp' = [op |-> "MarkNotificationReadView",
                             requester |-> requester, pk |-> pk,
                             status |-> 404]
            /\ UNCHANGED notifications
       ELSE LET n == CHOOSE m \in get_notification_or_404(notifications, pk,
                                                          requester) : TRUE
            IN /\ notifications' = mark_as_read(notifications, n)
               /\ notifResp' = [op |-> "MarkNotificationReadView",
                                requester |-> requester, pk |-> pk,
                                status |-> 200, wrote |-> ~n.read]

\* DeleteNotificationView.delete: DELETE /api/notifications/<pk>/
DeleteNotificationView(requester, pk) ==
    /\ requester \in members \cup {Anonymous}
    /\ UNCHANGED <<nextNotificationId, nonNotifVars>>
    /\ IF requester = Anonymous
       THEN /\ \E st \in Unauthenticated :
                 notifResp' = [op |-> "DeleteNotificationView",
                               requester |-> requester, pk |-> pk,
                               status |-> st]
            /\ UNCHANGED notifications
       ELSE IF get_notification_or_404(notifications, pk, requester) = {}
       THEN /\ notifResp' = [op |-> "DeleteNotificationView",
                             requester |-> requester, pk |-> pk,
                             status |-> 404]
            /\ UNCHANGED notifications
       ELSE /\ notifications' = notifications \
                 get_notification_or_404(notifications, pk, requester)
            /\ notifResp' = [op |-> "DeleteNotificationView",
                             requester |-> requester, pk |-> pk,
                             status |-> 204]

\* the read query parameter of GET /api/notifications/: not given, or a text
NoReadParam == "<none>"
ReadParams == {NoReadParam, "true", "FALSE", "1"}

\* str.lower() on the read parameters in use
lower_param(read_param) == IF read_param = "FALSE" THEN "false" ELSE read_param

\* NotificationListView.get_queryset: the rows of the requesting user, with
\* the read filter of the query parameter when it reads true or false
NotificationListView_get_queryset(rows, user, read_param) ==
    LET queryset == {n \in rows : n.recipient = user}
    IN IF read_param = NoReadParam THEN queryset
       ELSE IF lower_param(read_param) = "true"
       THEN {n \in queryset : n.read}
       ELSE IF lower_param(read_param) = "false"
       THEN {n \in queryset : ~n.read}
       ELSE queryset

\* mutant: the unread rows of every recipient
UnreadNotificationListView_get_queryset_all(rows, user) ==
    {n \in rows : ~n.read}

\* mutant: the rows of the user, read or not
UnreadNotificationListView_get_queryset_read(rows, user) ==
    {n \in rows : n.recipient = user}

\* UnreadNotificationListView.get_queryset, also the queryset that
\* MarkAllNotificationsReadView.post updates
UnreadNotificationListView_get_queryset(rows, user) ==
    {n \in rows : n.recipient = user /\ ~n.read}

\* NotificationListView.list: GET /api/notifications/?read=...; results holds
\* the rows of the queryset (their order, -timestamp, is not modelled)
NotificationListView(requester, read_param) ==
    /\ requester \in members \cup {Anonymous}
    /\ UNCHANGED <<notifications, nextNotificationId, nonNotifVars>>
    /\ IF requester = Anonymous
       THEN \E st \in Unauthenticated :
               notifResp' = [op |-> "NotificationListView",
                             requester |-> requester, status |-> st]
       ELSE LET queryset == NotificationListView_get_queryset(
                                notifications, requester, read_param)
            IN notifResp' = [op |-> "NotificationListView",
                             requester |-> requester, status |-> 200,
                             read_param |-> read_param,
                             count |-> Cardinality(queryset),
                             unread_count |->
                                Cardinality({n \in queryset : ~n.read}),
                             results |-> queryset]

\* UnreadNotificationListView: GET /api/notifications/unread/
UnreadNotificationListView(requester) ==
    /\ requester \in members \cup {Anonymous}
    /\ UNCHANGED <<notifications, nextNotificationId, nonNotifVars>>
    /\ IF requester = Anonymous
       THEN \E st \in Unauthenticated :
               notifResp' = [op |-> "UnreadNotificationListView",
                             requester |-> requester, status |-> st]
       ELSE notifResp' = [op |-> "UnreadNotificationListView",
                          requester |-> requester, status |-> 200,
                          results |-> UnreadNotificationListView_get_queryset(
                                          notifications, requester)]

\* MarkAllNotificationsReadView.post: POST /api/notifications/mark-all-read/;
\* QuerySet.update(read=True) returns the number of rows matched
MarkAllNotificationsReadView(requester) ==
    /\ requester \in members \cup {Anonymous}
    /\ UNCHANGED <<nextNotificationId, nonNotifVars>>
    /\ IF requester = Anonymous
       THEN /\ \E st \in Unauthenticated :
                 notifResp' = [op |-> "MarkAllNotificationsReadView",
                               requester |-> requester, status |-> st]
            /\ UNCHANGED notifications
       ELSE LET matched == UnreadNotificationListView_get_queryset(
                               notifications, requester)
            IN /\ notifications' =
                     {IF n \in matched THEN [n EXCEPT !.read = TRUE] ELSE n :
                        n \in notifications}
               /\ notifResp' = [op |-> "MarkAllNotificationsReadView",
                                requester |-> requester, status |-> 200,
                                updated_count |-> Cardinality(matched)]

InitNotif ==
    /\ notifications = {}
    /\ nextNotificationId = 1
    /\ notifResp = [op |-> "none"]

\* the notification endpoints and model methods
NextNotif ==
    \/ \E recipient \in UserIds, verb \in Verbs :
         \E actor \in UserIds \ {recipient} :
            NotificationAdmin_add(recipient, actor, verb, FALSE)
    \/ \E pk \in NotificationIds : CallMarkAsRead(pk)
    \/ \E pk \in NotificationIds : CallMarkAsUnread(pk)
    \/ \E requester \in Requesters, pk \in NotificationPks :
         MarkNotificationReadView(requester, pk)
    \/ \E requester \in Requesters, pk \in NotificationPks :
         DeleteNotificationView(requester, pk)

\* the notification endpoints of the API, with the admin adding rows
NextInbox ==
    \/ \E recipient \in UserIds, verb \in Verbs :
         \E actor \in UserIds \ {recipient} :
            NotificationAdmin_add(recipient, actor, verb, FALSE)
    \/ \E requester \in Requesters, read_param \in ReadParams :
         NotificationListView(requester, read_param)
    \/ \E requester \in Requesters : UnreadNotificationListView(requester)
    \/ \E requester \in Requesters, pk \in NotificationPks :
         MarkNotificationReadView(requester, pk)
    \/ \E requester \in Requesters :
         MarkAllNotificationsReadView(requester)
    \/ \E requester \in Requesters, pk \in NotificationPks :
         DeleteNotificationView(requester, pk)

\* CustomUserAdmin, delete of a user: the delete cascades to the user's
\* posts and comments, to the comments on those posts, to the notifications
\* the user received or triggered, and to the user's follow edges
CustomUserAdmin_delete(user) ==
    /\ user \in members
    /\ members' = members \ {user}
    /\ posts' = CASCADE(posts, "author", {user})
    /\ comments' = CASCADE(CASCADE(comments, "author", {user}), "post",
                           {p.id : p \in posts \ CASCADE(posts, "author", {user})})
    /\ notifications' = CASCADE(CASCADE(notifications, "recipient", {user}),
                                "actor", {user})
    /\ followers' = [u \in UserIds |->
                       IF u = user THEN {} ELSE followers[u] \ {user}]
    /\ resp' = [op |-> "CustomUserAdmin_delete", user |-> user,
                deleted |-> [posts |-> Cardinality(posts \ posts'),
                             comments |-> Cardinality(comments \ comments'),
                             notifications |->
                                Cardinality(notifications \ notifications')]]
    /\ UNCHANGED <<nextPostId, now, nextCommentId, nextNotificationId,
                   notifResp, shelfVars, apiVars, regVars, userVars>>

\* rows that refer to each other are created, re-assigned and deleted
NextCascade ==
    \/ \E r \in UserIds :
         /\ nextPostId <= MaxContentPosts
         /\ PostCreate(r, PostPayload({"title", "content"}, <<"t">>, TRUE, 0))
    \/ \E r \in UserIds, pk \in PostIds :
         CommentCreate(r, CommentPayload({"post", "content"}, pk, <<"c">>, 0))
    \/ \E recipient \in UserIds, verb \in Verbs :
         \E actor \in UserIds \ {recipient} :
            /\ nextNotificationId <= MaxCascadeNotifications
            /\ NotificationAdmin_add(recipient, actor, verb, FALSE)
    \/ \E p \in posts, id \in UserIds \cup {MissingUserId} :
         PostUpdate(p.author, p.id, "PATCH",
                    PostPayload({"author_id"}, <<>>, TRUE, id))
    \/ \E p \in posts : PostDestroy(p.author, p.id)
    \/ \E user \in UserIds : CustomUserAdmin_delete(user)

\* requests that name an object, of the three kinds of endpoint that fetch
\* it with get_object_or_404
NextMissing ==
    \/ \E recipient \in UserIds, verb \in Verbs :
         \E actor \in UserIds \ {recipient} :
            NotificationAdmin_add(recipient, actor, verb, FALSE)
    \/ \E requester \in Requesters, pk \in NotificationPks :
         MarkNotificationReadView(requester, pk)
    \/ \E requester \in Requesters, pk \in NotificationPks :
         DeleteNotificationView(requester, pk)
    \/ \E requester \in Requesters, action \in FollowActions :
         FollowUserView(requester, MissingUserId, action)
    \/ \E u \in {"super", "viewer"}, view \in PkViews, pk \in BookPks :
         ShelfGet(u, view, pk)

\* =====================================================================
\* advanced_features_and_security: accounts (CustomUser, CustomUserManager)
\* =====================================================================
EmailInputs ==
    {NoEmail, <<"admin", "example.com">>, <<"admin", "EXAMPLE.com">>,
     <<"test", "example.com">>}
AccountUsernames == {"admin", "testuser"}

\* **extra_fields restricted to the three flags: given names the keyword
\* arguments passed; a flag not passed holds a filler that is never read
FlagNames == {"is_staff", "is_superuser", "is_active"}
ExtraFields(given, staff, superuser, active) ==
    [given |-> given,
     is_staff |-> "is_staff" \in given /\ staff,
     is_superuser |-> "is_superuser" \in given /\ superuser,
     is_active |-> "is_active" \in given /\ active]

\* the flag of a keyword argument, default when it was not passed
\* (dict.get with a default; the defaults of the model's fields)
flag_or(extra_fields, name, default) ==
    IF name \in extra_fields.given THEN extra_fields[name] ELSE default

\* extra_fields.setdefault(name, TRUE)
setdefault_true(extra_fields, name) ==
    IF name \in extra_fields.given THEN extra_fields
    ELSE [extra_fields EXCEPT !.given = @ \cup {name}, ![name] = TRUE]

\* mutant: the email column without its unique constraint
unique_email_violation_off(rows, email) == FALSE

\* the database's unique constraint on CustomUser.email
unique_email_violation(rows, email) == \E u \in rows : u.email = email

\* the database's unique constraint on AbstractUser.username
unique_username_violation(rows, username) == \E u \in rows : u.username = username

\* mutant: create_user without the check of the email
create_user_unchecked(rows, email, username, extra_fields) ==
    [raised |-> "",
     rows |-> rows \cup
        {[id |-> Cardinality(rows) + 1, email |-> normalize_email(email),
          username |-> username,
          is_staff |-> flag_or(extra_fields, "is_staff", FALSE),
          is_superuser |-> flag_or(extra_fields, "is_superuser", FALSE),
          is_active |-> flag_or(extra_fields, "is_active", TRUE)]}]

\* CustomUserManager.create_user: the exception raised ("" for none) and the
\* rows of the table afterwards. The flags not passed take the defaults of
\* AbstractUser: is_staff and is_superuser False, is_active True.
create_user(rows, email, username, extra_fields) ==
    IF email = NoEmail
    THEN [raised |-> "ValueError", rows |-> rows]
    ELSE IF \/ unique_email_violation(rows, normalize_email(email))
            \/ unique_username_violation(rows, username)
    THEN [raised |-> "IntegrityError", rows |-> rows]
    ELSE [raised |-> "",
          rows |-> rows \cup
             {[id |-> Cardinality(rows) + 1, email |-> normalize_email(email),
               username |-> username,
               is_staff |-> flag_or(extra_fields, "is_staff", FALSE),
               is_superuser |-> flag_or(extra_fields, "is_superuser", FALSE),
               is_active |-> flag_or(extra_fields, "is_active", TRUE)]}]

\* CustomUserManager.create_superuser
create_superuser(rows, email, username, extra_fields) ==
    LET extra == setdefault_true(setdefault_true(setdefault_true(
                     extra_fields, "is_staff"), "is_superuser"), "is_active")
    IN IF extra.is_staff # TRUE
       THEN [raised |-> "ValueError", rows |-> rows]
       ELSE IF extra.is_superuser # TRUE
       THEN [raised |-> "ValueError", rows |-> rows]
       ELSE create_user(rows, email, username, extra)

\* User.objects.create_user(email=..., username=..., **extra_fields)
CallCreateUser(email, username, extra_fields) ==
    LET result == create_user(users, email, username, extra_fields)
    IN /\ result.raised = "" => Cardinality(users) < MaxUsers
       /\ users' = result.rows
       /\ userResp' = [op |-> "create_user", email |-> email,
                       username |-> username, extra_fields |-> extra_fields,
                       raised |-> result.raised]
       /\ UNCHANGED nonUserVars

\* User.objects.create_superuser(email=..., username=..., **extra_fields)
CallCreateSuperuser(email, username, extra_fields) ==
    LET result == create_superuser(users, email, username, extra_fields)
    IN /\ result.raised = "" => Cardinality(users) < MaxUsers
       /\ users' = result.rows
       /\ userResp' = [op |-> "create_superuser", email |-> email,
                       username |-> username, extra_fields |-> extra_fields,
                       raised |-> result.raised]
       /\ UNCHANGED nonUserVars

DefaultEmail == <<"admin", "example.com">>
DefaultUsername == "admin"
NoFlags == ExtraFields({}, FALSE, FALSE, FALSE)

\* manage.py create_custom_superuser [--email e] [--username u]: Command.handle
\* with a date of birth that parses. An option that is missing or empty takes
\* its default.
Command_handle(email_option, username_option) ==
    LET email == IF email_option = NoEmail THEN DefaultEmail ELSE email_option
        username == IF username_option = "" THEN DefaultUsername
                    ELSE username_option
    IN IF \E u \in users : u.email = email
       THEN /\ userResp' = [op |-> "create_custom_superuser", email |-> email,
                            username |-> username, raised |-> "",
                            output |-> "already exists"]
            /\ UNCHANGED <<users, nonUserVars>>
       ELSE LET result == create_superuser(users, email, username, NoFlags)
            IN /\ result.raised = "" => Cardinality(users) < MaxUsers
               /\ users' = result.rows
               /\ userResp' = [op |-> "create_custom_superuser",
                               email |-> email, username |-> username,
                               raised |-> result.raised,
                               output |-> IF result.raised = ""
                                          THEN "Successfully created superuser"
                                          ELSE ""]
               /\ UNCHANGED nonUserVars

InitUsers ==
    /\ users = {}
    /\ userResp = [op |-> "none"]

\* the keyword arguments tried: none, each flag turned against its default,
\* and the flags of a superuser passed to create_user
ExtraFieldsInputs ==
    {NoFlags,
     ExtraFields({"is_staff"}, FALSE, FALSE, FALSE),
     ExtraFields({"is_superuser"}, FALSE, FALSE, FALSE),
     ExtraFields({"is_active"}, FALSE, FALSE, FALSE),
     ExtraFields({"is_staff"}, TRUE, FALSE, FALSE),
     ExtraFields({"is_staff", "is_superuser"}, TRUE, TRUE, FALSE)}

NextUsers ==
    \/ \E email \in EmailInputs, username \in AccountUsernames,
          extra_fields \in ExtraFieldsInputs :
         CallCreateUser(email, username, extra_fields)
    \/ \E email \in EmailInputs, username \in AccountUsernames,
          extra_fields \in ExtraFieldsInputs :
         CallCreateSuperuser(email, username, extra_fields)
    \/ \E email \in EmailInputs, username \in AccountUsernames \cup {""} :
         Command_handle(email, username)

\* the bodies of a create request: a title and a content that passes or not
NewPosts ==
    {PostPayload({"title", "content"}, <<"t">>, ok, 0) : ok \in BOOLEAN}

InitSocial ==
    /\ followers = [u \in UserIds |-> {}]
    /\ posts = {}
    /\ nextPostId = 1
    /\ now = 0
    /\ resp = [op |-> "none"]
    /\ comments = {}
    /\ nextCommentId = 1
    /\ members = UserIds

\* the follow graph: the model methods and POST /api/accounts/follow/
NextSocial ==
    \/ \E a, b \in UserIds : CallFollow(a, b)
    \/ \E a, b \in UserIds : CallUnfollow(a, b)
    \/ \E r \in Requesters, id \in UserIds \cup {MissingUserId},
         act \in FollowActions \cup {"block"} : FollowUserView(r, id, act)

\* the follow graph together with the posts and the feed
NextFeed ==
    \/ \E a, b \in UserIds : a # b /\ CallFollow(a, b)
    \/ \E a, b \in UserIds : a # b /\ CallUnfollow(a, b)
    \/ Tick
    \/ \E r \in UserIds, payload \in NewPosts : PostCreate(r, payload)
    \/ \E r \in Requesters : FeedView(r)

\* the writes of posts
NextPosts ==
    \/ Tick
    \/ \E r \in Requesters, payload \in NewPosts : PostCreate(r, payload)
    \/ \E r \in Requesters, pk \in PostIds : PostDestroy(r, pk)

\* the bodies tried on the posts endpoints: with and without an author_id,
\* which may name any user or none
CreatePosts ==
    {PostPayload({"title", "content"}, <<"t">>, TRUE, 0)}
    \cup {PostPayload({"title", "content", "author_id"}, <<"t">>, TRUE, id) :
             id \in UserIds}
UpdatePosts ==
    {PostPayload({"title", "content"}, <<"u", Space>>, TRUE, 0)}
    \cup {PostPayload({"author_id"}, <<>>, TRUE, id) :
             id \in UserIds \cup {MissingUserId}}

\* the bodies tried on the comments endpoints
CreateComments ==
    {CommentPayload({"post", "content"}, 1, <<"c">>, 0)}
    \cup {CommentPayload({"post", "content", "author_id"}, 1, <<"c">>, id) :
             id \in UserIds}
UpdateComments ==
    {CommentPayload({"author_id"}, 0, <<>>, id) :
       id \in UserIds \cup {MissingUserId}}

\* posts and comments: create, read, update and delete by every requester;
\* the bodies carry author_id, so that an author can change
NextAuthors ==
    \/ \E r \in UserIds, payload \in CreatePosts :
         nextPostId <= MaxContentPosts /\ PostCreate(r, payload)
    \/ \E r \in Requesters, pk \in PostIds, method \in UpdateMethods,
          payload \in UpdatePosts : PostUpdate(r, pk, method, payload)
    \/ \E r \in UserIds, payload \in CreateComments : CommentCreate(r, payload)
    \/ \E r \in Requesters, pk \in CommentIds, method \in UpdateMethods,
          payload \in UpdateComments : CommentUpdate(r, pk, method, payload)

\* posts of one user and comments of another: every requester reads them
\* and tries to change and to delete them
PostAuthor == 1
CommentAuthor == 2
NextContent ==
    \/ \E payload \in CreatePosts :
         nextPostId <= MaxContentPosts /\ PostCreate(PostAuthor, payload)
    \/ \E r \in Requesters, method \in ReadMethods, pk \in PostIds :
         PostRetrieve(r, method, pk)
    \/ \E r \in Requesters : PostMyPosts(r)
    \/ \E r \in Requesters, pk \in PostIds, method \in UpdateMethods :
         PostUpdate(r, pk, method, PostPayload({"title"}, <<"u">>, TRUE, 0))
    \/ \E r \in Requesters, pk \in PostIds : PostDestroy(r, pk)
    \/ \E payload \in CreateComments : CommentCreate(CommentAuthor, payload)
    \/ \E r \in Requesters, method \in ReadMethods, pk \in CommentIds :
         CommentRetrieve(r, method, pk)
    \/ \E r \in Requesters, pk \in CommentIds, method \in UpdateMethods :
         CommentUpdate(r, pk, method, CommentPayload({"content"}, 0, <<"d">>, 0))
    \/ \E r \in Requesters, pk \in CommentIds : CommentDestroy(r, pk)

Init == InitSocial /\ InitShelf /\ InitApi /\ InitReg /\ InitUsers /\ InitNotif
Next == NextSocial
Spec == Init /\ [][Next]_vars
SpecFeed == Init /\ [][NextFeed]_vars
SpecPosts == Init /\ [][NextPosts]_vars
SpecContent == Init /\ [][NextContent]_vars
SpecAuthors == Init /\ [][NextAuthors]_vars
SpecCascade == Init /\ [][NextCascade]_vars
SpecShelf == Init /\ [][NextShelf]_vars
SpecBooks == Init /\ [][NextBooks]_vars
SpecReviews == Init /\ [][NextReviews]_vars
SpecForm == Init /\ [][NextForm]_vars
SpecReg == Init /\ [][NextReg]_vars
SpecApi == Init /\ [][NextApi]_vars
SpecYears == Init /\ [][NextYears]_vars
SpecUsers == Init /\ [][NextUsers]_vars
SpecNotif == Init /\ [][NextNotif]_vars
SpecTokens == Init /\ [][NextTokens]_vars
SpecMissing == Init /\ [][NextMissing]_vars
SpecInbox == Init /\ [][NextInbox]_vars
SpecRace == Init /\ [][NextRace]_vars

\* =====================================================================
\* Claims checked under Spec
\* =====================================================================

\* C1: follow and unfollow are idempotent. For distinct users a and b and every
\* reachable follow graph, a.follow(b) applied twice leaves the graph that
\* applying it once leaves; a.unfollow(b) applied twice, or applied when a does
\* not follow b, leaves the graph that applying it once leaves (the graph itself
\* when a does not follow b); neither raises, and the follow endpoint answers
\* 200 to a valid repeated request.
C1_FollowUnfollowIdempotent ==
    /\ \A a, b \in UserIds : a # b =>
         LET f1 == follow(followers, a, b)
             f2 == follow(f1.followers, a, b)
             u1 == unfollow(followers, a, b)
             u2 == unfollow(u1.followers, a, b)
         IN /\ f2.followers = f1.followers
            /\ u2.followers = u1.followers
            /\ ~f1.raised /\ ~f2.raised /\ ~u1.raised /\ ~u2.raised
            /\ (is_following(followers, a, b) => f1.followers = followers)
            /\ (~is_following(followers, a, b) => u1.followers = followers)
    /\ (resp.op \in {"follow", "unfollow"} => ~resp.raised)
    /\ (resp.op = "FollowUserView" /\ resp.requester # Anonymous
            /\ FollowSerializer_is_valid(resp.requester, resp.user_id, resp.action)
          => resp.status = 200)

\* C1 witness: a follow of a user already followed, or an unfollow of a user not
\* followed, has just run between distinct users and changed nothing.
C1_Witness ==
    /\ resp.op \in {"follow", "unfollow"}
    /\ resp.self # resp.user
    /\ ~resp.changed
    /\ ~resp.raised
    /\ (resp.op = "follow" => is_following(followers, resp.self, resp.user))

\* C2: follow edges are not symmetrical. A step in which a follows b (a # b)
\* adds a to b.followers and changes nothing else, so whether b follows a is as
\* before; afterwards a.is_following(b) and b.is_followed_by(a) both hold, and in
\* every state x.is_following(y) holds iff x is in y.followers, which is
\* y.is_followed_by(x).
C2_FollowNonSymmetrical ==
    [][\A a, b \in UserIds :
         (a # b /\ \/ (resp'.op = "follow" /\ resp'.self = a /\ resp'.user = b)
                   \/ (resp'.op = "FollowUserView" /\ resp'.status = 200
                         /\ resp'.action = "follow"
                         /\ resp'.requester = a /\ resp'.user_id = b))
         => /\ followers' = [followers EXCEPT ![b] = @ \cup {a}]
            /\ is_following(followers', a, b)
            /\ is_followed_by(followers', b, a)
            /\ is_following(followers', b, a) = is_following(followers, b, a)
            /\ \A x, y \in UserIds :
                 /\ is_following(followers', x, y) = (x \in followers'[y])
                 /\ is_followed_by(followers', y, x) = is_following(followers', x, y)
      ]_vars

\* C2 witness: a has just followed b, and b does not follow a.
C2_Witness ==
    /\ resp.op = "follow"
    /\ resp.changed
    /\ is_following(followers, resp.self, resp.user)
    /\ ~is_following(followers, resp.user, resp.self)

\* ---------------------------------------------------------------------
\* Claims checked under SpecFeed
\* ---------------------------------------------------------------------

C4_PermissionMatrix ==
    shelfResp.op = "GET" =>
        LET u == shelfResp.user
            view == shelfResp.view
            granted ==
                \/ u = "viewer" /\ view \in {"book_list", "book_detail"}
                \/ u = "editor" /\ view \in {"book_list", "book_detail",
                                             "add_book", "edit_book"}
                \/ u \in {"admin", "super"}
        IN /\ granted => shelfResp.status \in {200, 404}
           /\ ~granted => shelfResp.status = 403

\* ---------------------------------------------------------------------
\* Claims checked under SpecBooks
\* ---------------------------------------------------------------------
isbn_held(isbn) == \E b \in books : b.isbn = isbn

\* C5: no two Book rows have the same isbn. A SecureBookForm submitted with
\* an ISBN that a book holds, directly or through add_book, has an error on
\* isbn and creates no book; of two interleaved add_book requests with the
\* same ISBN the later save creates no book; edit_book keeps the rows' isbn
\* distinct.
C5_UniqueIsbn ==
    /\ \A b1 \in books, b2 \in books : b1.isbn = b2.isbn => b1 = b2
    /\ (shelfResp.op = "SecureBookForm" /\ ~shelfResp.created
            /\ isbn_held(shelfResp.raw))
         => "isbn" \in shelfResp.errors
    /\ (shelfResp.op = "SecureBookForm" /\ "isbn" \in shelfResp.errors)
         => ~shelfResp.created
    /\ (shelfResp.op = "add_book" /\ shelfResp.phase = "validate"
            /\ shelfResp.status = 200 /\ isbn_held(shelfResp.raw))
         => "isbn" \in shelfResp.errors
    /\ (shelfResp.op = "add_book" /\ shelfResp.phase = "save"
            /\ ~shelfResp.created)
         => shelfResp.error = "IntegrityError" /\ isbn_held(shelfResp.isbn)
    /\ (shelfResp.op = "edit_book" /\ shelfResp.error = "IntegrityError")
         => \E b \in books : b.isbn = shelfResp.raw /\ b.pk # shelfResp.pk

\* two add_book requests with the same ISBN passed validation and the later
\* save was refused by the database
C5_Witness ==
    /\ shelfResp.op = "add_book"
    /\ shelfResp.phase = "save"
    /\ shelfResp.error = "IntegrityError"
    /\ \E b \in books : b.isbn = shelfResp.isbn

\* ---------------------------------------------------------------------
\* Claims checked under SpecReviews
\* ---------------------------------------------------------------------

\* C6 (as stated): a user who holds the permission of add_review, already
\* reviewed a book and submits add_review again gets that review updated: the
\* request is answered without an error status.
C6_AddReviewAgainUpdates ==
    (/\ shelfResp.op = "add_review"
     /\ shelfResp.via = "url"
     /\ has_perm(shelfResp.user, RequiredPermission("add_review"))
     /\ \E r \in reviews :
          r.book = shelfResp.book /\ r.reviewer = shelfResp.user)
        => shelfResp.status \in {200, 302}

\* ---------------------------------------------------------------------
\* Claims checked under SpecReg
\* ---------------------------------------------------------------------

\* C7 (as stated): a registration whose password and confirmation, as sent,
\* differ is rejected (400 from the API, the form shown again) and creates no
\* user and no token.
C7_MismatchRejected ==
    [][(/\ regResp'.op \in {"register", "form"}
        /\ regResp'.password # regResp'.password_confirm)
         => /\ regResp'.status = IF regResp'.op = "register" THEN 400 ELSE 200
            /\ regResp'.errors # {}
            /\ accounts' = accounts
            /\ tokens' = tokens
            /\ formUsers' = formUsers]_vars

\* C7 (amended): a registration whose password and confirmation differ after
\* the surrounding whitespace is stripped is rejected with a validation error
\* (400 from the API with an error map, the form shown again with a password
\* field in error) and creates no user and no token.
C7_StrippedMismatchRejected ==
    [][(/\ regResp'.op \in {"register", "form"}
        /\ strip(regResp'.password) # strip(regResp'.password_confirm))
         => /\ regResp'.status = IF regResp'.op = "register" THEN 400 ELSE 200
            /\ regResp'.errors # {}
            /\ (regResp'.op = "form"
                  => regResp'.errors \cap {"password1", "password2"} # {})
            /\ accounts' = accounts
            /\ tokens' = tokens
            /\ formUsers' = formUsers]_vars

\* a registration with two different non-blank passwords, every other field
\* valid, was refused by the comparison alone
C7_Witness ==
    /\ regResp.op = "register"
    /\ strip(regResp.password) # <<>>
    /\ strip(regResp.password_confirm) # <<>>
    /\ strip(regResp.password) # strip(regResp.password_confirm)
    /\ regResp.status = 400
    /\ regResp.errors = {"password"}
    /\ accounts # {}

\* ---------------------------------------------------------------------
\* Claims checked under SpecApi
\* ---------------------------------------------------------------------

\* C8: to a client that is not authenticated the book list answers 200 and
\* the detail of a book that exists answers 200; its create, update and
\* delete requests are answered 401 or 403 and leave the set of books and
\* every book's fields as they were.
C8_ReadsPublicWritesRefused ==
    [][(/\ apiResp'.op \in {"list", "detail", "create", "update", "delete"}
        /\ ~apiResp'.authenticated)
         => CASE apiResp'.op = "list" ->
                   /\ apiResp'.status = 200
                   /\ apiResp'.ids = {b.id : b \in apiBooks}
              [] apiResp'.op = "detail" ->
                   /\ (\E b \in apiBooks : b.id = apiResp'.pk)
                        => apiResp'.status = 200
                   /\ apiResp'.status \in {200, 404}
              [] OTHER ->
                   /\ apiResp'.status \in {401, 403}
                   /\ apiBooks' = apiBooks]_vars

\* an unauthenticated delete of a book that exists was refused
C8_Witness ==
    /\ apiResp.op = "delete"
    /\ ~apiResp.authenticated
    /\ apiResp.status \in {401, 403}
    /\ \E b \in apiBooks : b.id = apiResp.pk

\* C9: for an authenticated client, a create answered 201 makes a book with
\* the returned id exist; a PATCH with only title that succeeds sets the
\* book's title to the (trimmed) title sent and leaves its publication_year,
\* its author and every other book unchanged; a delete that succeeds removes
\* the book with that id and leaves every other book unchanged.
C9_CreatePatchDelete ==
    [][/\ (apiResp'.op = "create" /\ apiResp'.status = 201)
          => /\ apiResp'.authenticated
             /\ ~\E b \in apiBooks : b.id = apiResp'.id
             /\ \E b \in apiBooks' : b.id = apiResp'.id
             /\ apiBooks \subseteq apiBooks'
       /\ (/\ apiResp'.op = "update"
           /\ apiResp'.status = 200
           /\ apiResp'.payload.supplied = {"title"})
          => \E old \in apiBooks :
                /\ old.id = apiResp'.pk
                /\ apiBooks' = (apiBooks \ {old}) \cup
                     {[old EXCEPT !.title = strip(apiResp'.payload.title)]}
       /\ (apiResp'.op = "delete" /\ apiResp'.status = 204)
          => /\ \E b \in apiBooks : b.id = apiResp'.pk
             /\ apiBooks' = {b \in apiBooks : b.id # apiResp'.pk}]_vars

\* a PATCH with only title changed the title of one of two books
C9_Witness ==
    /\ apiResp.op = "update"
    /\ apiResp.status = 200
    /\ apiResp.payload.supplied = {"title"}
    /\ Cardinality(apiBooks) = 2
    /\ \E b \in apiBooks :
         /\ b.id = apiResp.pk
         /\ b.title = strip(apiResp.payload.title)
         /\ b.title # apiResp.payload.title
         /\ b.author = 2

\* ---------------------------------------------------------------------
\* Claims checked under SpecYears
\* ---------------------------------------------------------------------

\* C10: a create or update that sends publication_year has an error on that
\* field exactly when the value is greater than the current year (the current
\* year itself is accepted); every book written by a request has a
\* publication_year no later than the year of that request, and no book is
\* ever dated after the current year.
C10_NoFuturePublicationYear ==
    [][/\ (/\ apiResp'.op \in {"create", "update"}
           /\ apiResp'.status \in {200, 201, 400}
           /\ "publication_year" \in apiResp'.payload.supplied)
          => ("publication_year" \in apiResp'.errors
                <=> apiResp'.payload.publication_year > thisYear)
       /\ \A b \in apiBooks' : b \notin apiBooks => b.publication_year <= thisYear
       /\ \A b \in apiBooks' : b.publication_year <= thisYear']_vars

\* after the year moved on, a book dated in the current year was created
C10_Witness ==
    /\ apiResp.op = "create"
    /\ apiResp.status = 201
    /\ thisYear > 0
    /\ apiResp.payload.publication_year = thisYear
    /\ \E b \in apiBooks : b.id = apiResp.id /\ b.publication_year = thisYear

\* ---------------------------------------------------------------------
\* C11 as stated: create_user with an empty email raises ValueError and
\* stores no user; every user create_user creates is active and neither
\* staff nor superuser; create_superuser with is_staff=False or
\* is_superuser=False raises ValueError and stores no user; every user
\* create_superuser creates has is_staff, is_superuser and is_active true.
C11_ManagerFlagsAsStated ==
    [][LET created == users' \ users
       IN /\ (userResp'.op = "create_user" /\ userResp'.email = NoEmail)
                => (userResp'.raised = "ValueError" /\ users' = users)
          /\ (userResp'.op = "create_user" /\ userResp'.raised = "")
                => \E u \in created :
                      /\ created = {u}
                      /\ u.is_active /\ ~u.is_staff /\ ~u.is_superuser
          /\ (/\ userResp'.op = "create_superuser"
              /\ \/ flag_or(userResp'.extra_fields, "is_staff", TRUE) = FALSE
                 \/ flag_or(userResp'.extra_fields, "is_superuser", TRUE) = FALSE)
                => (userResp'.raised = "ValueError" /\ users' = users)
          /\ (userResp'.op = "create_superuser" /\ userResp'.raised = "")
                => \E u \in created :
                      /\ created = {u}
                      /\ u.is_staff /\ u.is_superuser /\ u.is_active
      ]_vars

\* C11 amended: the two ValueError cases as stated; a user created by
\* create_user has each flag as passed in the keyword arguments and
\* otherwise the default (active, not staff, not superuser), so a call
\* without flags creates an active user that is neither staff nor
\* superuser; a user created by create_superuser has is_staff and
\* is_superuser true, and is_active true unless is_active=False was passed.
C11_ManagerFlags ==
    [][LET created == users' \ users
       IN /\ (userResp'.op = "create_user" /\ userResp'.email = NoEmail)
                => (userResp'.raised = "ValueError" /\ users' = users)
          /\ (userResp'.op = "create_user" /\ userResp'.raised = "")
                => \E u \in created :
                      /\ created = {u}
                      /\ u.is_active
                           = flag_or(userResp'.extra_fields, "is_active", TRUE)
                      /\ u.is_staff
                           = flag_or(userResp'.extra_fields, "is_staff", FALSE)
                      /\ u.is_superuser
                           = flag_or(userResp'.extra_fields, "is_superuser", FALSE)
          /\ (/\ userResp'.op = "create_superuser"
              /\ \/ flag_or(userResp'.extra_fields, "is_staff", TRUE) = FALSE
                 \/ flag_or(userResp'.extra_fields, "is_superuser", TRUE) = FALSE)
                => (userResp'.raised = "ValueError" /\ users' = users)
          /\ (userResp'.op = "create_superuser" /\ userResp'.raised = "")
                => \E u \in created :
                      /\ created = {u}
                      /\ u.is_staff /\ u.is_superuser
                      /\ u.is_active
                           = flag_or(userResp'.extra_fields, "is_active", TRUE)
      ]_vars

\* a superuser was created with is_active=False passed, and is inactive
C11_Witness ==
    /\ userResp.op = "create_superuser"
    /\ userResp.raised = ""
    /\ "is_active" \in userResp.extra_fields.given
    /\ \E u \in users :
          /\ u.username = userResp.username
          /\ u.is_staff /\ u.is_superuser /\ ~u.is_active

\* ---------------------------------------------------------------------
\* C12: no two CustomUser rows share an email address; a creation with an
\* email already in use fails and leaves the users unchanged; the
\* create_custom_superuser command run for an existing email creates no user.
C12_UniqueEmail ==
    [][/\ \A u \in users' : \A v \in users' : u.email = v.email => u = v
       /\ (/\ userResp'.op \in {"create_user", "create_superuser"}
           /\ \E u \in users : u.email = normalize_email(userResp'.email))
             => (userResp'.raised # "" /\ users' = users)
       /\ (/\ userResp'.op = "create_custom_superuser"
           /\ \E u \in users : u.email = normalize_email(userResp'.email))
             => users' = users
      ]_vars

\* a creation under a fresh username was refused for its email, which an
\* existing user holds
C12_Witness ==
    /\ userResp.op \in {"create_user", "create_superuser"}
    /\ userResp.raised = "IntegrityError"
    /\ \E u \in users : u.email = normalize_email(userResp.email)
    /\ \A u \in users : u.username # userResp.username

\* ---------------------------------------------------------------------
\* C13: a request of a requester who may make it, naming a missing object,
\* gets 404 and changes no state: marking read or deleting a notification
\* whose pk does not exist, a bookshelf view given a nonexistent book pk,
\* and POST /api/accounts/follow/ whose user_id names no user.
C13_MissingObjectIs404 ==
    [][/\ (/\ notifResp'.op \in {"MarkNotificationReadView",
                                  "DeleteNotificationView"}
           /\ notifResp'.requester # Anonymous
           /\ ~\E n \in notifications : n.id = notifResp'.pk)
             => (notifResp'.status = 404 /\ notifications' = notifications)
       /\ (/\ shelfResp'.op = "GET"
           /\ shelfResp'.view \in PkViews
           /\ has_perm(shelfResp'.user, RequiredPermission(shelfResp'.view))
           /\ ~\E b \in books : b.pk = shelfResp'.pk)
             => (shelfResp'.status = 404 /\ books' = books)
       /\ (/\ resp'.op = "FollowUserView"
           /\ resp'.requester # Anonymous
           /\ resp'.action \in FollowActions
           /\ resp'.user_id \notin UserIds)
             => (resp'.status = 404 /\ followers' = followers)
      ]_vars

\* ---------------------------------------------------------------------
\* C14: marking notification N as read (Notification.mark_as_read, or
\* POST /api/notifications/<pk>/read/ answered 200) sets read on N only,
\* changes no other field of N and no other notification, and a call on an
\* already-read notification writes nothing and leaves it read.
C14_MarkReadSingleRow ==
    [][(\/ notifResp'.op = "mark_as_read"
        \/ notifResp'.op = "MarkNotificationReadView" /\ notifResp'.status = 200)
       => /\ \E n \in notifications :
               /\ n.id = notifResp'.pk
               /\ [n EXCEPT !.read = TRUE] \in notifications'
               /\ notifications' \ {[n EXCEPT !.read = TRUE]}
                    = notifications \ {n}
               /\ n.read => (notifications' = notifications
                              /\ ~notifResp'.wrote)
          /\ nextNotificationId' = nextNotificationId
      ]_vars

\* a second read-marking of an already-read notification was answered 200
\* while the same recipient holds another, unread notification
C14_Witness ==
    /\ notifResp.op = "MarkNotificationReadView"
    /\ notifResp.status = 200
    /\ ~notifResp.wrote
    /\ \E n \in notifications, m \in notifications :
          /\ n.id = notifResp.pk /\ n.read
          /\ m.recipient = n.recipient /\ ~m.read

\* ---------------------------------------------------------------------
\* C15: a successful registration creates exactly one token, for the new
\* user; a login with valid credentials succeeds (200) and returns the
\* user's token, the existing one if there is one and otherwise a new one;
\* no user ever has two tokens; a successful logout deletes the token, so
\* that its key no longer authenticates.
C15_TokenLifecycle ==
    [][/\ (regResp'.op = "register" /\ regResp'.status = 201)
             => \E a \in accounts' \ accounts, t \in tokens' \ tokens :
                   /\ accounts' = accounts \cup {a}
                   /\ tokens' = tokens \cup {t}
                   /\ t.user = a.id
       /\ (regResp'.op = "login" /\ regResp'.status # 400)
             => /\ regResp'.status = 200
                /\ \E t \in tokens' :
                      /\ t.user = regResp'.user
                      /\ tokens' = tokens \cup {t}
       /\ \A t \in tokens' : \A u \in tokens' : t.user = u.user => t = u
       /\ (regResp'.op = "logout" /\ regResp'.status = 200)
             => /\ \E t \in tokens : t.key = regResp'.key
                /\ tokens' = {t \in tokens : t.key # regResp'.key}
      ]_vars

\* ---------------------------------------------------------------------
\* C18: after any sequence of follow and unfollow operations (the model
\* methods and POST /api/accounts/follow/) no user is in their own followers
\* set; a follow request of an authenticated user whose user_id is the
\* requester's own id is answered 400 and leaves the follow graph unchanged.
C18_NoSelfFollow ==
    [][/\ \A u \in UserIds : u \notin followers'[u]
       /\ (/\ resp'.op = "FollowUserView"
           /\ resp'.requester # Anonymous
           /\ resp'.user_id = resp'.requester)
             => (resp'.status = 400 /\ followers' = followers)
      ]_vars

\* a user who follows somebody asked to unfollow themselves and was refused
C18_Witness ==
    /\ resp.op = "FollowUserView"
    /\ resp.requester # Anonymous
    /\ resp.user_id = resp.requester
    /\ resp.action = "unfollow"
    /\ resp.status = 400
    /\ \E u \in UserIds : resp.requester \in followers[u]

\* ---------------------------------------------------------------------
\* Claims checked under SpecForm
\* ---------------------------------------------------------------------
\* the entities escape writes
Entities ==
    {<<"&", "a", "m", "p", ";">>, <<"&", "l", "t", ";">>, <<"&", "g", "t", ";">>,
     <<"&", "q", "u", "o", "t", ";">>, <<"&", "#", "x", "2", "7", ";">>}

\* a text in which no HTML-special character stands raw: no '<', '>' or
\* quote, and every '&' opens an entity
OnlyEscaped(text) ==
    \A i \in 1..Len(text) :
       /\ text[i] \notin {"<", ">", "\"", "'"}
       /\ text[i] = "&"
            => \E e \in Entities :
                  /\ i + Len(e) - 1 <= Len(text)
                  /\ SubSeq(text, i, i + Len(e) - 1) = e

\* C17 as stated: the cleaned title and author of SecureBookForm hold no raw
\* '<' or '>', HTML-special characters stand only in escaped form
\* ('<script>' becomes '&lt;script&gt;'), and a form whose title is empty or
\* longer than 200 characters has an error on title and saves no book.
C17_EscapedAndBoundedAsStated ==
    [][shelfResp'.op = "SecureBookForm.clean"
       => /\ OnlyEscaped(shelfResp'.cleaned_data.title)
          /\ OnlyEscaped(shelfResp'.cleaned_data.author)
          /\ (shelfResp'.title = ScriptTag /\ "title" \notin shelfResp'.errors)
                => shelfResp'.cleaned_data.title
                     = <<"&", "l", "t", ";", "s", "c", "r", "i", "p", "t",
                         "&", "g", "t", ";">>
          /\ (shelfResp'.title = <<>> \/ Len(shelfResp'.title) > TitleMaxLength)
                => /\ "title" \in shelfResp'.errors
                   /\ ~shelfResp'.created
                   /\ books' = books
      ]_vars

\* C17 amended: as stated, with the title measured after the surrounding
\* whitespace is stripped: a form whose stripped title is empty or longer
\* than 200 characters has an error on title and saves no book.
C17_EscapedAndBounded ==
    [][shelfResp'.op = "SecureBookForm.clean"
       => /\ OnlyEscaped(shelfResp'.cleaned_data.title)
          /\ OnlyEscaped(shelfResp'.cleaned_data.author)
          /\ (shelfResp'.title = ScriptTag /\ "title" \notin shelfResp'.errors)
                => shelfResp'.cleaned_data.title
                     = <<"&", "l", "t", ";", "s", "c", "r", "i", "p", "t",
                         "&", "g", "t", ";">>
          /\ (\/ strip(shelfResp'.title) = <<>>
              \/ Len(strip(shelfResp'.title)) > TitleMaxLength)
                => /\ "title" \in shelfResp'.errors
                   /\ ~shelfResp'.created
                   /\ books' = books
      ]_vars

\* a book was saved from a form whose title and author both carried markup
C17_Witness ==
    /\ shelfResp.op = "SecureBookForm.clean"
    /\ shelfResp.title = ScriptTag
    /\ \E i \in 1..Len(shelfResp.author) : shelfResp.author[i] = "<"
    /\ shelfResp.errors = {}
    /\ shelfResp.created
    /\ books # {}

\* ---------------------------------------------------------------------
\* C19: the author of a post or comment is the authenticated user who
\* created it, whatever author_id the body of the create request carried,
\* and no request changes the author of an existing post or comment.
C19_AuthorNeverChanges ==
    [][/\ (resp'.op = "PostCreate" /\ resp'.status = 201)
             => \E p \in posts' \ posts :
                   p.id = resp'.id /\ p.author = resp'.requester
       /\ (resp'.op = "CommentCreate" /\ resp'.status = 201)
             => \E c \in comments' \ comments :
                   c.id = resp'.id /\ c.author = resp'.requester
       /\ \A p \in posts : \A q \in posts' : q.id = p.id => q.author = p.author
       /\ \A c \in comments : \A d \in comments' :
             d.id = c.id => d.author = c.author
      ]_vars

C21_NotificationsPerRecipient ==
    [][LET r == notifResp'
       IN /\ (r.op = "NotificationListView" /\ r.status = 200)
               => /\ \A n \in r.results : n.recipient = r.requester
                  /\ r.results \subseteq notifications
                  /\ r.results = NotificationListView_get_queryset(
                        {n \in notifications : n.recipient = r.requester},
                        r.requester, r.read_param)
                  /\ notifications' = notifications
          /\ (r.op = "UnreadNotificationListView" /\ r.status = 200)
               => /\ r.results =
                       {n \in notifications :
                          n.recipient = r.requester /\ ~n.read}
                  /\ notifications' = notifications
          /\ r.op \in {"MarkNotificationReadView", "DeleteNotificationView",
                       "MarkAllNotificationsReadView"}
               => \A n \in notifications :
                     n.recipient # r.requester => n \in notifications'
          /\ (/\ r.op \in {"MarkNotificationReadView",
                           "DeleteNotificationView"}
              /\ r.requester # Anonymous
              /\ \E n \in notifications :
                    n.id = r.pk /\ n.recipient # r.requester)
               => r.status = 404
      ]_vars

\* a delete of another user's notification was answered 404 and the
\* notification is still there
C21_Witness ==
    /\ notifResp.op = "DeleteNotificationView"
    /\ notifResp.requester # Anonymous
    /\ notifResp.status = 404
    /\ \E n \in notifications :
          n.id = notifResp.pk /\ n.recipient # notifResp.requester

\* ---------------------------------------------------------------------
\* C22: POST /api/notifications/mark-all-read/ by user U leaves U with no
\* unread notification, reports as updated_count the number of U's
\* notifications that were unread just before the call, and removes no row;
\* a call that finds no unread notification of U (in particular a second
\* call directly after the first) reports 0 and changes nothing.
C22_MarkAllReadIdempotent ==
    [][(notifResp'.op = "MarkAllNotificationsReadView"
          /\ notifResp'.status = 200)
       => LET U == notifResp'.requester
              before == {n \in notifications : n.recipient = U /\ ~n.read}
          IN /\ {n \in notifications' : n.recipient = U /\ ~n.read} = {}
             /\ notifResp'.updated_count = Cardinality(before)
             /\ notifications' =
                   (notifications \ before)
                      \cup {[n EXCEPT !.read = TRUE] : n \in before}
             /\ before = {}
                  => notifResp'.updated_count = 0
                     /\ notifications' = notifications
             /\ (/\ notifResp.op = "MarkAllNotificationsReadView"
                 /\ notifResp.status = 200
                 /\ notifResp.requester = U)
                  => notifResp'.updated_count = 0
                     /\ notifications' = notifications
      ]_vars

\* a call that marked two notifications of the user at once
C22_Witness ==
    /\ notifResp.op = "MarkAllNotificationsReadView"
    /\ notifResp.status = 200
    /\ notifResp.updated_count >= 2
    /\ Cardinality({n \in notifications :
                      n.recipient = notifResp.requester /\ n.read}) >= 2

\* ---------------------------------------------------------------------
\* C23: no two users registered through POST /api/accounts/register/ share
\* a username or an email address, also when registrations with the same
\* username or email pass validation before either saves; the request that
\* loses is answered with a validation error (400) and creates neither a
\* user nor a token.
C23_RegistrationUniqueUnderRace ==
    [][/\ \A a, b \in accounts' :
             a # b => a.username # b.username /\ a.email # b.email
       /\ (/\ regResp'.op = "save"
           /\ \E a \in accounts :
                 \/ a.username = regResp'.username
                 \/ a.email = normalize_email(regResp'.email))
            => /\ regResp'.status = 400
               /\ accounts' = accounts
               /\ tokens' = tokens
      ]_vars

====
